---- MODULE Spec2Model ----
(***************************************************************************)
(* Model of the agent turn engine of trknhr/agenticode:                    *)
(*   - Agent.ExecuteWithHistory, Turn.run and TurnHandler (event driven     *)
(*     loop, approval, tool execution, tool-response threading),           *)
(*   - ToolCallScheduler (life cycle of scheduled tool calls),             *)
(*   - hooks.Manager (hook result processing and aggregation),             *)
(*   - filterConversationForLLM (orphan filter),                           *)
(*   - the tool approvers, the sub-agent factory of agent_tool and the     *)
(*     session command compact.                                            *)
(* The specifications of the module share its variables:                   *)
(*   Spec          the agent loop,                                         *)
(*   DryRunSpec    the agent loop entered with dryrun = true,              *)
(*   CancelSpec    the agent loop whose context may be cancelled,          *)
(*   SchedSpec     arbitrary sequences of scheduler operations,            *)
(*   HookSpec      hook results of one event and their aggregation,        *)
(*   FilterSpec    the orphan filter applied to arbitrary conversations,   *)
(*   ApproverSpec  one approval request answered by each approver,         *)
(*   SubAgentSpec  a sub-agent of each agent_type and its tool calls,      *)
(*   CompactSpec   the session command compact,                            *)
(*   ConfigSpec    environment references of one configuration field,      *)
(*   WaitSpec      an approval request waiting at its prompt,              *)
(*   ManagerSpec   the client manager of the external tool servers,        *)
(*   EditSpec      one multi_edit call on one file,                        *)
(*   TodoSpec      todo_write and todo_read on the global store,           *)
(*   StreamSpec    the event stream between Turn.run and the handler,      *)
(*   LaunchSpec    the goroutines of one Manager.ExecuteHooks call,        *)
(*   ObserverSpec  a reader of scheduler entries beside the handler,       *)
(*   LoadSpec      LoadMCPTools over the configured servers,               *)
(*   CloseSpec     CloseAll beside client initializations,                 *)
(*   DelegateSpec  agent_tool calls of a parent turn and their sub-agent.  *)
(***************************************************************************)
EXTENDS Integers, Sequences, FiniteSets, TLC

VARIABLES
    \* ---- Agent.ExecuteWithHistory
    pc,               \* position in ExecuteWithHistory / HandleTurn
    i,                \* loop counter of the main execution loop
    conversation,     \* local variable conversation
    steps,            \* result.Steps
    success,          \* result.Success
    message,          \* result.Message
    returnedErr,      \* TRUE when ExecuteWithHistory returned a non-nil error
    dryrun,           \* parameter dryrun of ExecuteWithHistory
    cancelled,        \* TRUE once parameter ctx of ExecuteWithHistory is cancelled
    \* ---- Turn
    turnConv,         \* Turn.conversation
    pendingCalls,     \* Turn.pendingCalls
    events,           \* content of EventStream.events (buffered channel)
    llmInput,         \* message list handed to llmClient.Generate by callLLM
    llmCalls,         \* number of llmClient.Generate calls so far
    \* ---- TurnHandler
    toolResponses,    \* TurnHandler.toolResponses
    pendingApprovals, \* TurnHandler.pendingApprovals (set of stored requests)
    scheduler,        \* ToolCallScheduler.pendingCalls (id -> entry)
    \* ---- environment
    budget,           \* tool calls the LLM may still request
    execLog,          \* record of every tool.Execute invocation
    approvalLog,      \* record of every approver response
    \* ---- scheduler driven directly (SchedSpec)
    lastOp,           \* last scheduler operation applied
    \* ---- hook manager (HookSpec)
    hookEvent,        \* event the hooks were fired for
    hookResults,      \* HookResult of every matched hook, in configuration order
    hookOutputs,      \* outputs returned by ExecuteHooks
    hookPhase,        \* "idle" | "executed" | "decided"
    blockResult,      \* value returned by ShouldBlockToolExecution
    approveResult,    \* value returned by ShouldAutoApprove
    \* ---- orphan filter (FilterSpec)
    filterIn,         \* argument of filterConversationForLLM
    filterOut,        \* its result
    filterDone,       \* TRUE once the filter was applied to filterIn
    \* ---- approvers (ApproverSpec)
    approverKind,     \* which ToolApprover answered
    approverSetup,    \* its configuration and the lines the user types
    approvalRequest,  \* ApprovalRequest.ToolCalls
    approvalResponse, \* the ApprovalResponse and whether an error was returned
    \* ---- sub-agents of agent_tool (SubAgentSpec)
    subAgentType,     \* agent_type of the running sub-agent, "none" without one
    subAgentTools,    \* names in the sub-agent's a.tools
    subAgentApprover, \* the sub-agent's approver
    subAgentLog,      \* tool calls of the sub-agent and whether each was executed
    \* ---- session command compact (CompactSpec)
    session,          \* conversation of runInteractiveMode
    summarization,    \* what SummarizeConversation returned
    compactPhase,     \* "idle" | "refused" | "failed" | "compacted"
    expansion,        \* ExpandProviderConfig and ResolvedEnv applied to one field (ConfigSpec)
    prompt,           \* InteractiveApprover.RequestApproval waiting at its prompt (WaitSpec)
    manager,          \* ClientManager and the goroutines of LoadMCPTools (ManagerSpec)
    multiEdit,        \* the file of one multi_edit call, before and after (EditSpec)
    todo,             \* GlobalTodoStore with the last todo_write and todo_read (TodoSpec)
    eventStream,           \* EventStream between the goroutine of Turn.run and the handler loop (StreamSpec)
    hookRun,          \* the goroutines of one Manager.ExecuteHooks call (LaunchSpec)
    observer,         \* scheduler entries written field by field and read by an observer (ObserverSpec)
    loader,           \* the goroutines of LoadMCPTools and its tool channel (LoadSpec)
    shutdown,         \* ClientManager with repeated initialisations and CloseAll (CloseSpec)
    delegate          \* one turn of the parent with its agent_tool calls and their sub-agent (DelegateSpec)

agentVars   == <<pc, i, conversation, steps, success, message, returnedErr, dryrun,
                 cancelled,
                 turnConv, pendingCalls, events, llmInput, llmCalls,
                 toolResponses, pendingApprovals, budget,
                 execLog, approvalLog>>
hookVars    == <<hookEvent, hookResults, hookOutputs, hookPhase, blockResult, approveResult>>
filterVars  == <<filterIn, filterOut, filterDone>>
approverVars == <<approverKind, approverSetup, approvalRequest, approvalResponse>>
\* the parts driven by the further specifications
subAgentVars == <<subAgentType, subAgentTools, subAgentApprover, subAgentLog>>
compactVars == <<session, summarization, compactPhase>>
extVars     == <<expansion, prompt, manager, multiEdit, todo, eventStream, hookRun, observer, loader, shutdown, delegate>>
restVars    == <<approverVars, subAgentVars, compactVars, extVars>>
vars        == <<agentVars, scheduler, lastOp, hookVars, filterVars, restVars>>

----------------------------------------------------------------------------
\* Bounds of the model

\* a.maxSteps of the modelled agent
maxSteps == 3
\* largest number of tool calls in one LLM response
MaxCallsPerTurn == 2
\* total number of tool calls the LLM requests in one invocation
MaxToolCalls == 3
\* longest list of hooks matched for one event
MaxHooks == 2
\* longest conversation handed to the orphan filter
MaxFilterLen == 3

\* capacity of EventStream.events
EventBufferSize == 100

----------------------------------------------------------------------------
\* Messages (openai.ChatCompletionMessage)

NoCalls == << >>

Msg(role, content, toolCalls, toolCallID, name) ==
    [Role |-> role, Content |-> content, ToolCalls |-> toolCalls,
     ToolCallID |-> toolCallID, Name |-> name]

SystemMsg(content)         == Msg("system", content, NoCalls, "", "")
UserMsg(content)           == Msg("user", content, NoCalls, "", "")
AssistantMsg(content, tcs) == Msg("assistant", content, tcs, "", "")
ToolMsg(name, content, id) == Msg("tool", content, NoCalls, id, name)

RepetitionNudge ==
    "You seem to be repeating the same actions. Please review the previous results and try a different approach."

Last(s) == s[Len(s)]

----------------------------------------------------------------------------
\* Tool registry and risk classifier

\* names registered in a.tools
Tools == {"read_file", "run_shell", "edit"}
\* Tool.ReadOnly of the registered tools
ReadOnly(toolName) == toolName = "read_file"

\* names the LLM may ask for ("bogus" is not registered)
RequestedNames == Tools \cup {"bogus"}

AssessToolCallRisk(toolName) ==
    CASE toolName \in {"read_file", "read", "list_files", "grep", "glob", "read_many_files"} -> "Low"
      [] toolName \in {"write_file", "edit", "apply_patch"} -> "Medium"
      [] toolName = "run_shell" -> "High"
      [] OTHER -> "Medium"

----------------------------------------------------------------------------
\* ToolCallScheduler: pendingCalls maps a call id to its PendingToolCall.
\* Time stamps are modelled by whether the pointer is set (non-nil).

StatusPending  == "Pending"
StatusApproved == "Approved"
StatusRejected == "Rejected"
StatusExecuted == "Executed"
StatusFailed   == "Failed"

NewScheduler == << >>

Put(s, id, entry) ==
    [x \in (DOMAIN s) \cup {id} |-> IF x = id THEN entry ELSE s[x]]

NewPendingToolCall ==
    [Status |-> StatusPending, ApprovedAt |-> FALSE, ExecutedAt |-> FALSE,
     Result |-> FALSE, Error |-> FALSE]

RECURSIVE ScheduleToolCalls(_, _)
ScheduleToolCalls(s, ids) ==
    IF ids = << >> THEN s
    ELSE ScheduleToolCalls(Put(s, Head(ids), NewPendingToolCall), Tail(ids))

ApproveCalls(s, callIDs) ==
    [x \in DOMAIN s |->
        IF x \in callIDs /\ s[x].Status = StatusPending
        THEN [s[x] EXCEPT !.Status = StatusApproved, !.ApprovedAt = TRUE]
        ELSE s[x]]

RejectCallsKeepsPending(s, callIDs) == s

RejectCalls(s, callIDs) ==
    [x \in DOMAIN s |->
        IF x \in callIDs /\ s[x].Status = StatusPending
        THEN [s[x] EXCEPT !.Status = StatusRejected]
        ELSE s[x]]

\* result: TRUE when a non-nil result is passed; err: TRUE when err # nil
MarkExecuted(s, callID, result, err) ==
    IF callID \in DOMAIN s
    THEN [s EXCEPT ![callID] =
            [@ EXCEPT !.ExecutedAt = TRUE, !.Result = result, !.Error = err,
                      !.Status = IF err THEN StatusFailed ELSE StatusExecuted]]
    ELSE s

Clear(s) ==
    [x \in {y \in DOMAIN s : s[y].Status \in {StatusPending, StatusApproved}} |-> s[x]]

----------------------------------------------------------------------------
\* hooks.Manager: processing of hook results and aggregation of outputs

PreToolUse       == "PreToolUse"
PostToolUse      == "PostToolUse"
UserPromptSubmit == "UserPromptSubmit"

NoHso == [Kind |-> "none", PermissionDecision |-> "", PermissionDecisionReason |-> ""]

\* hookSpecificOutput as json.Unmarshal leaves it in an interface{} field:
\* a map[string]interface{}
MapHso(decision, reason) ==
    [Kind |-> "map", PermissionDecision |-> decision, PermissionDecisionReason |-> reason]

\* a value of the Go type PreToolUseOutput
TypedHso(decision, reason) ==
    [Kind |-> "PreToolUseOutput", PermissionDecision |-> decision,
     PermissionDecisionReason |-> reason]

ContextHso == [Kind |-> "AdditionalContext", PermissionDecision |-> "",
               PermissionDecisionReason |-> ""]

HookOutput(continue, stopReason, decision, reason, hso) ==
    [Continue |-> continue, StopReason |-> stopReason, Decision |-> decision,
     Reason |-> reason, HookSpecificOutput |-> hso]

\* stdout of a hook process: nothing, free text, or a JSON object whose
\* fields may be absent
NoStdout   == [Kind |-> "empty"]
TextStdout == [Kind |-> "text"]
JsonStdout(continue, stopReason, decision, reason, permission, permissionReason) ==
    [Kind |-> "json", Continue |-> continue, StopReason |-> stopReason,
     Decision |-> decision, Reason |-> reason,
     PermissionDecision |-> permission, PermissionDecisionReason |-> permissionReason]

\* outcome of running one hook command, before the JSON is looked at
Ran(exitCode, stdout, stderr) ==
    [ExitCode |-> exitCode, Stdout |-> stdout, Stderr |-> stderr, Error |-> FALSE]
\* the command could not be run at all
RunFailed == [ExitCode |-> -1, Stdout |-> NoStdout, Stderr |-> "", Error |-> TRUE]

\* json.Unmarshal([]byte(result.Stdout), &output): an absent "continue" leaves
\* Continue at its zero value false; hookSpecificOutput becomes a map
ParseHookOutput(stdout) ==
    HookOutput(stdout.Continue = "true", stdout.StopReason, stdout.Decision,
               stdout.Reason,
               IF stdout.PermissionDecision = "" THEN NoHso
               ELSE MapHso(stdout.PermissionDecision, stdout.PermissionDecisionReason))

\* tail of executeHook: result.Output is set when the exit code is 0 and the
\* stdout parses as JSON
HasParsedOutput(result) ==
    result.ExitCode = 0 /\ result.Stdout.Kind = "json"

\* processHookResult: the output of one hook, or "nil"
NilOutput == [Nil |-> TRUE]

processHookResultLenient(event, result) ==
    IF result.Error THEN NilOutput
    ELSE IF HasParsedOutput(result) THEN ParseHookOutput(result.Stdout)
    ELSE HookOutput(TRUE, "", "", "", NoHso)

processHookResult(event, result) ==
    IF result.Error THEN NilOutput
    ELSE IF HasParsedOutput(result) THEN ParseHookOutput(result.Stdout)
    ELSE IF result.ExitCode = 0 THEN
        HookOutput(TRUE, "", "", "",
                   IF event = UserPromptSubmit /\ result.Stdout.Kind # "empty"
                   THEN ContextHso ELSE NoHso)
    ELSE IF result.ExitCode = 2 THEN
        IF event = PreToolUse
        THEN HookOutput(FALSE, result.Stderr, "", "", TypedHso("deny", result.Stderr))
        ELSE IF event = PostToolUse
        THEN HookOutput(FALSE, result.Stderr, "block", result.Stderr, NoHso)
        ELSE HookOutput(FALSE, result.Stderr, "", "", NoHso)
    ELSE HookOutput(TRUE, "", "", "", NoHso)

\* ExecuteHooks, after wg.Wait(): outputs of the non-nil results, in order
RECURSIVE CollectOutputs(_, _)
CollectOutputs(event, results) ==
    IF results = << >> THEN << >>
    ELSE LET output == processHookResult(event, Head(results))
         IN  (IF output = NilOutput THEN << >> ELSE <<output>>)
             \o CollectOutputs(event, Tail(results))

\* one iteration of the loop of ShouldBlockToolExecution
BlockDecisionOf(output) ==
    IF ~output.Continue THEN [Block |-> TRUE, Reason |-> output.StopReason]
    ELSE IF output.HookSpecificOutput.Kind = "PreToolUseOutput"
            /\ output.HookSpecificOutput.PermissionDecision = "deny"
    THEN [Block |-> TRUE, Reason |-> output.HookSpecificOutput.PermissionDecisionReason]
    ELSE IF output.Decision \in {"deny", "block"}
    THEN [Block |-> TRUE, Reason |-> output.Reason]
    ELSE [Block |-> FALSE, Reason |-> ""]

RECURSIVE ShouldBlockToolExecution(_)
ShouldBlockToolExecution(outputs) ==
    IF outputs = << >> THEN [Block |-> FALSE, Reason |-> ""]
    ELSE IF BlockDecisionOf(Head(outputs)).Block THEN BlockDecisionOf(Head(outputs))
    ELSE ShouldBlockToolExecution(Tail(outputs))

\* one iteration of the loop of ShouldAutoApprove
ApproveDecisionOf(output) ==
    IF output.HookSpecificOutput.Kind = "PreToolUseOutput"
       /\ output.HookSpecificOutput.PermissionDecision = "allow"
    THEN [Approve |-> TRUE, Reason |-> output.HookSpecificOutput.PermissionDecisionReason]
    ELSE IF output.Decision \in {"approve", "allow"}
    THEN [Approve |-> TRUE, Reason |-> output.Reason]
    ELSE [Approve |-> FALSE, Reason |-> ""]

RECURSIVE ShouldAutoApprove(_)
ShouldAutoApprove(outputs) ==
    IF outputs = << >> THEN [Approve |-> FALSE, Reason |-> ""]
    ELSE IF ApproveDecisionOf(Head(outputs)).Approve THEN ApproveDecisionOf(Head(outputs))
    ELSE ShouldAutoApprove(Tail(outputs))

----------------------------------------------------------------------------
\* filterConversationForLLM

RECURSIVE FilterFrom(_, _)
FilterFrom(messages, k) ==
    IF k > Len(messages) THEN << >>
    ELSE (IF messages[k].Role = "tool"
          THEN (IF k > 1 /\ Len(messages[k-1].ToolCalls) > 0
                THEN <<messages[k]>> ELSE << >>)
          ELSE <<messages[k]>>)
         \o FilterFrom(messages, k + 1)

filterConversationForLLM(messages) == FilterFrom(messages, 1)

----------------------------------------------------------------------------
\* Inputs of the agent loop

SeqsUpTo(S, n) == UNION {[1..k -> S] : k \in 0..n}

\* provider-assigned id of the k-th tool call of a response
ProviderID(k) == "call" \o ToString(k)

\* A tool call of an LLM response together with what the environment holds
\* for it: ArgsOK says whether Function.Arguments is valid JSON, Command is
\* args["command"], FileExists whether args["file_path"] can be read.
ToolCall(id, name, argsOK, command, fileExists) ==
    [ID |-> id, Name |-> name, ArgsOK |-> argsOK, Command |-> command,
     FileExists |-> fileExists]

CallChoices(k) ==
    { ToolCall(ProviderID(k), "read_file", TRUE, "", TRUE),
      ToolCall("", "read_file", TRUE, "", TRUE),
      ToolCall(ProviderID(k), "read_file", FALSE, "", TRUE),
      ToolCall(ProviderID(k), "run_shell", TRUE, "ls", TRUE),
      ToolCall(ProviderID(k), "run_shell", TRUE, "sudo make install", TRUE),
      ToolCall(ProviderID(k), "edit", TRUE, "", FALSE),
      ToolCall(ProviderID(k), "bogus", TRUE, "", TRUE) }

\* the responses the LLM may give when it may still request n tool calls
Responses(n) ==
    UNION { { calls \in [1..k -> UNION {CallChoices(j) : j \in 1..k}] :
                \A j \in 1..k : calls[j] \in CallChoices(j) } : k \in 0..n }

Min(a, b) == IF a < b THEN a ELSE b

\* what tool.Execute returns: a result, a result carrying an error, or an error
ToolOutcomes == {"ok", "resultError", "err"}

\* the PreToolUse hook of docs/hooks.md, example 3: exit code 2 with the
\* pattern on stderr for a dangerous run_shell command, exit code 0 otherwise
PreToolUseHookResults(toolName, command) ==
    IF toolName = "run_shell" /\ command = "sudo make install"
    THEN <<Ran(2, NoStdout, "Dangerous command pattern detected: sudo")>>
    ELSE <<Ran(0, NoStdout, "")>>

----------------------------------------------------------------------------
\* Turn

Event(type, callID, name, command, detailsNil, cause) ==
    [Type |-> type, CallID |-> callID, Name |-> name, Command |-> command,
     DetailsNil |-> detailsNil, Cause |-> cause]

ContentEvent(content)  == Event("Content", "", "", "", FALSE, content)
ErrorEvent(cause)      == Event("Error", "", "", "", FALSE, cause)
ToolCallRequestEvent(callID, name, command) ==
    Event("ToolCallRequest", callID, name, command, FALSE, "")
ToolCallConfirmationEvent(request, detailsNil) ==
    Event("ToolCallConfirmation", request.CallID, request.Name, request.Command,
          detailsNil, "")

EmitUnbounded(stream, event) == Append(stream, event)

\* EventStream.Emit: a send that is dropped when the buffer is full
Emit(stream, event) ==
    IF Len(stream) < EventBufferSize THEN Append(stream, event) ELSE stream

\* createConfirmationDetails: the value is a nil *ToolFileConfirmationDetails
\* wrapped in the interface when an edit names a file that cannot be read;
\* the interface value itself is never nil
DetailsHoldNilPointer(call) == call.Name = "edit" /\ ~call.FileExists

\* Turn.handleToolCall: the turn's pendingCalls and event eventStream after one
\* tool call of the response
handleToolCall(t, call) ==
    LET callID  == IF call.ID = ""
                   THEN call.Name \o "-" \o ToString(Len(t.pendingCalls))
                   ELSE call.ID
        request == ToolCallRequestEvent(callID, call.Name, call.Command)
    IN  IF ~call.ArgsOK
        THEN [t EXCEPT !.events =
                 Emit(@, ErrorEvent("Failed to parse tool arguments"))]
        ELSE IF call.Name \notin Tools
        THEN [pendingCalls |-> Append(t.pendingCalls, request),
              events |-> Emit(t.events, ErrorEvent("tool not found: " \o call.Name))]
        ELSE IF AssessToolCallRisk(call.Name) # "Low"
        THEN [pendingCalls |-> Append(t.pendingCalls, request),
              events |-> Emit(Emit(t.events, request),
                              ToolCallConfirmationEvent(request, DetailsHoldNilPointer(call)))]
        ELSE [pendingCalls |-> Append(t.pendingCalls, request),
              events |-> Emit(t.events, request)]

RECURSIVE handleToolCalls(_, _)
handleToolCalls(t, calls) ==
    IF calls = << >> THEN t
    ELSE handleToolCalls(handleToolCall(t, Head(calls)), Tail(calls))

\* the tool_calls list as the assistant message keeps it
MessageToolCalls(calls) ==
    [k \in 1..Len(calls) |-> [ID |-> calls[k].ID, Name |-> calls[k].Name]]

----------------------------------------------------------------------------
\* TurnHandler

ToolContent(outcome) == IF outcome = "ok" THEN "result" ELSE "Error: failed"

\* approver responses to a request holding the single call callID
Approve(callID)  == [ApprovedIDs |-> <<callID>>, RejectedIDs |-> << >>, Err |-> FALSE]
Reject(callID)   == [ApprovedIDs |-> << >>, RejectedIDs |-> <<callID>>, Err |-> FALSE]
ApprovalError    == [ApprovedIDs |-> << >>, RejectedIDs |-> << >>, Err |-> TRUE]
ApproverResponses(callID) == {Approve(callID), Reject(callID), ApprovalError}

Range(s) == {s[k] : k \in 1..Len(s)}

ApprovalSelectsExecutionAlways(approval) == Len(approval.ApprovedIDs) >= 0

\* handleToolCallConfirmation, the test that selects the execute branch
ApprovalSelectsExecution(approval) == Len(approval.ApprovedIDs) > 0

\* Agent.detectRepetitiveActions
CountCommand(recent, cmd) ==
    Cardinality({k \in 1..Len(recent) :
        recent[k].ToolName = "run_shell" /\ recent[k].Command = cmd})

detectRepetitiveActionsThrice(executedSteps) ==
    IF Len(executedSteps) < 3 THEN FALSE
    ELSE LET recent == SubSeq(executedSteps, Len(executedSteps) - 2, Len(executedSteps))
         IN  \E k \in 1..3 : /\ recent[k].ToolName = "run_shell"
                             /\ CountCommand(recent, recent[k].Command) >= 3

detectRepetitiveActions(executedSteps) ==
    IF Len(executedSteps) < 3 THEN FALSE
    ELSE LET recent == SubSeq(executedSteps, Len(executedSteps) - 2, Len(executedSteps))
         IN  \E k \in 1..3 : /\ recent[k].ToolName = "run_shell"
                             /\ CountCommand(recent, recent[k].Command) >= 2

LoopContinuesInclusive(n) == n <= maxSteps

\* loop condition of the main execution loop
LoopContinues(n) == n < maxSteps

\* the check after the loop of ExecuteWithHistory
StepCapReached(executedSteps) == Len(executedSteps) >= maxSteps

ExecutionStep(request) == [ToolName |-> request.Name, Command |-> request.Command]

----------------------------------------------------------------------------
\* Initial values of the parts a specification does not drive

NoDecision == [Block |-> FALSE, Reason |-> ""]
NoApproval == [Approve |-> FALSE, Reason |-> ""]

AgentIdle ==
    /\ pc = "idle" /\ i = 0 /\ conversation = << >> /\ steps = << >>
    /\ success = FALSE /\ message = "" /\ returnedErr = FALSE /\ dryrun = FALSE
    /\ cancelled = FALSE
    /\ turnConv = << >> /\ pendingCalls = << >> /\ events = << >>
    /\ llmInput = << >> /\ llmCalls = 0
    /\ toolResponses = << >> /\ pendingApprovals = << >>
    /\ budget = 0 /\ execLog = << >> /\ approvalLog = << >>

HooksIdle ==
    /\ hookEvent = PreToolUse /\ hookResults = << >> /\ hookOutputs = << >>
    /\ hookPhase = "idle" /\ blockResult = NoDecision /\ approveResult = NoApproval

FilterIdle ==
    /\ filterIn = << >> /\ filterOut = << >> /\ filterDone = FALSE

NoSetup == [AutoApprove |-> {}, AutoReject |-> {}, AllowedTools |-> {}, Lines |-> << >>]

ApproverIdle ==
    /\ approverKind = "none" /\ approverSetup = NoSetup
    /\ approvalRequest = << >>
    /\ approvalResponse = [ApprovedIDs |-> << >>, RejectedIDs |-> << >>, Err |-> FALSE]

NoApprover == [Kind |-> "none", AllowedTools |-> {}]

SubAgentIdle ==
    /\ subAgentType = "none" /\ subAgentTools = {}
    /\ subAgentApprover = NoApprover /\ subAgentLog = << >>

\* a SummarizationResult; Err is "" when the error returned is nil
SummarizationResult(err, original, summary) ==
    [Err |-> err, OriginalTokens |-> original, SummaryTokens |-> summary,
     TokensSaved |-> original - summary,
     CompressionRatio |-> [Num |-> original, Den |-> summary]]

NoSummarization == SummarizationResult("", 0, 0)

CompactIdle ==
    /\ session = << >> /\ summarization = NoSummarization /\ compactPhase = "idle"

\* The further subsystems, each kept in one record

coreVars == <<agentVars, scheduler, lastOp, hookVars, filterVars, approverVars,
              subAgentVars, compactVars>>

ExpansionIdle == expansion = [Field |-> "none", Form |-> "literal", Name |-> "", Environ |-> {}, Result |-> "", Done |-> FALSE]

PromptIdle == prompt = [Phase |-> "idle", Calls |-> 0, Waited |-> 0, Answer |-> "none"]

ManagerIdle == manager = [clients |-> <<>>, states |-> <<>>, created |-> {}, stored |-> {}, now |-> 1, get |-> [Name |-> 0, Phase |-> "none", Client |-> 0, Err |-> "none"]]

MultiEditIdle == multiEdit = [Before |-> [Exists |-> FALSE, Content |-> <<>>], Edits |-> <<>>, File |-> [Exists |-> FALSE, Content |-> <<>>], Err |-> "none", Phase |-> "idle"]

TodoIdle == todo = [items |-> <<>>, now |-> 1, made |-> 0, written |-> 0, before |-> <<>>, call |-> <<>>, reply |-> [Err |-> "none", newCount |-> 0, updateCount |-> 0], phase |-> "idle", read |-> <<>>]

EventStreamIdle == eventStream = [events |-> <<>>, emitted |-> 0, dropped |-> {}, received |-> <<>>, closed |-> 0, pc |-> "idle", handler |-> "idle"]

HookRunIdle == hookRun = [Phase |-> "idle", Event |-> "PreToolUse", Hooks |-> <<>>, Results |-> <<>>, Order |-> <<>>, Outputs |-> <<>>]

ObserverIdle == observer = [calls |-> <<>>, op |-> [Name |-> "none", ID |-> "", Step |-> 0, Result |-> FALSE, Err |-> FALSE], held |-> {}, view |-> [ID |-> "", Read |-> {}, Status |-> "", ApprovedAt |-> FALSE, ExecutedAt |-> FALSE, Result |-> FALSE]]

LoaderIdle == loader = [pc |-> <<>>, tools |-> <<>>, left |-> <<>>, state |-> <<>>, listed |-> <<>>, chan |-> <<>>, closed |-> FALSE, allTools |-> <<>>, returned |-> FALSE]

ShutdownIdle == shutdown = [clients |-> <<>>, states |-> <<>>, now |-> 1, made |-> 0, opened |-> {}, flights |-> {}, closedClients |-> {}, closeAll |-> "idle"]

DelegateIdle == delegate = [Phase |-> "idle", Calls |-> <<>>, Next |-> 1, AgentType |-> "none", SubAgentID |-> "none", MaxSteps |-> 0, Tools |-> {}, Step |-> 0, Finished |-> FALSE, Depth |-> 0, FirstCall |-> <<>>, ChildConv |-> <<>>, ParentConv |-> <<>>, ParentLog |-> <<>>]

ExtIdle == ExpansionIdle /\ PromptIdle /\ ManagerIdle /\ MultiEditIdle /\ TodoIdle /\ EventStreamIdle /\ HookRunIdle /\ ObserverIdle /\ LoaderIdle /\ ShutdownIdle /\ DelegateIdle

CoreIdle ==
    /\ AgentIdle /\ scheduler = NewScheduler /\ lastOp = "none"
    /\ HooksIdle /\ FilterIdle /\ ApproverIdle /\ SubAgentIdle /\ CompactIdle

expansionOthers == <<coreVars, prompt, manager, multiEdit, todo, eventStream, hookRun, observer, loader, shutdown, delegate>>

expansionOthersIdle == CoreIdle /\ PromptIdle /\ ManagerIdle /\ MultiEditIdle /\ TodoIdle /\ EventStreamIdle /\ HookRunIdle /\ ObserverIdle /\ LoaderIdle /\ ShutdownIdle /\ DelegateIdle

promptOthers == <<coreVars, expansion, manager, multiEdit, todo, eventStream, hookRun, observer, loader, shutdown, delegate>>

promptOthersIdle == CoreIdle /\ ExpansionIdle /\ ManagerIdle /\ MultiEditIdle /\ TodoIdle /\ EventStreamIdle /\ HookRunIdle /\ ObserverIdle /\ LoaderIdle /\ ShutdownIdle /\ DelegateIdle

managerOthers == <<coreVars, expansion, prompt, multiEdit, todo, eventStream, hookRun, observer, loader, shutdown, delegate>>

managerOthersIdle == CoreIdle /\ ExpansionIdle /\ PromptIdle /\ MultiEditIdle /\ TodoIdle /\ EventStreamIdle /\ HookRunIdle /\ ObserverIdle /\ LoaderIdle /\ ShutdownIdle /\ DelegateIdle

multiEditOthers == <<coreVars, expansion, prompt, manager, todo, eventStream, hookRun, observer, loader, shutdown, delegate>>

multiEditOthersIdle == CoreIdle /\ ExpansionIdle /\ PromptIdle /\ ManagerIdle /\ TodoIdle /\ EventStreamIdle /\ HookRunIdle /\ ObserverIdle /\ LoaderIdle /\ ShutdownIdle /\ DelegateIdle

todoOthers == <<coreVars, expansion, prompt, manager, multiEdit, eventStream, hookRun, observer, loader, shutdown, delegate>>

todoOthersIdle == CoreIdle /\ ExpansionIdle /\ PromptIdle /\ ManagerIdle /\ MultiEditIdle /\ EventStreamIdle /\ HookRunIdle /\ ObserverIdle /\ LoaderIdle /\ ShutdownIdle /\ DelegateIdle

eventStreamOthers == <<coreVars, expansion, prompt, manager, multiEdit, todo, hookRun, observer, loader, shutdown, delegate>>

eventStreamOthersIdle == CoreIdle /\ ExpansionIdle /\ PromptIdle /\ ManagerIdle /\ MultiEditIdle /\ TodoIdle /\ HookRunIdle /\ ObserverIdle /\ LoaderIdle /\ ShutdownIdle /\ DelegateIdle

hookRunOthers == <<coreVars, expansion, prompt, manager, multiEdit, todo, eventStream, observer, loader, shutdown, delegate>>

hookRunOthersIdle == CoreIdle /\ ExpansionIdle /\ PromptIdle /\ ManagerIdle /\ MultiEditIdle /\ TodoIdle /\ EventStreamIdle /\ ObserverIdle /\ LoaderIdle /\ ShutdownIdle /\ DelegateIdle

observerOthers == <<coreVars, expansion, prompt, manager, multiEdit, todo, eventStream, hookRun, loader, shutdown, delegate>>

observerOthersIdle == CoreIdle /\ ExpansionIdle /\ PromptIdle /\ ManagerIdle /\ MultiEditIdle /\ TodoIdle /\ EventStreamIdle /\ HookRunIdle /\ LoaderIdle /\ ShutdownIdle /\ DelegateIdle

loaderOthers == <<coreVars, expansion, prompt, manager, multiEdit, todo, eventStream, hookRun, observer, shutdown, delegate>>

loaderOthersIdle == CoreIdle /\ ExpansionIdle /\ PromptIdle /\ ManagerIdle /\ MultiEditIdle /\ TodoIdle /\ EventStreamIdle /\ HookRunIdle /\ ObserverIdle /\ ShutdownIdle /\ DelegateIdle

shutdownOthers == <<coreVars, expansion, prompt, manager, multiEdit, todo, eventStream, hookRun, observer, loader, delegate>>

shutdownOthersIdle == CoreIdle /\ ExpansionIdle /\ PromptIdle /\ ManagerIdle /\ MultiEditIdle /\ TodoIdle /\ EventStreamIdle /\ HookRunIdle /\ ObserverIdle /\ LoaderIdle /\ DelegateIdle

delegateOthers == <<coreVars, expansion, prompt, manager, multiEdit, todo, eventStream, hookRun, observer, loader, shutdown>>

delegateOthersIdle == CoreIdle /\ ExpansionIdle /\ PromptIdle /\ ManagerIdle /\ MultiEditIdle /\ TodoIdle /\ EventStreamIdle /\ HookRunIdle /\ ObserverIdle /\ LoaderIdle /\ ShutdownIdle

RestIdle == ApproverIdle /\ SubAgentIdle /\ CompactIdle /\ ExtIdle

----------------------------------------------------------------------------
\* Agent.ExecuteWithHistory with Turn and TurnHandler

\* the state at the entry of ExecuteWithHistory, called with dryrun = d
Entry(d) ==
    /\ pc = "loop" /\ i = 0
    /\ conversation = <<SystemMsg("core prompt"), UserMsg("task")>>
    /\ steps = << >> /\ success = FALSE /\ message = "" /\ returnedErr = FALSE
    /\ dryrun = d /\ cancelled = FALSE
    /\ turnConv = << >> /\ pendingCalls = << >> /\ events = << >>
    /\ llmInput = << >> /\ llmCalls = 0
    /\ toolResponses = << >> /\ pendingApprovals = << >>
    /\ scheduler = NewScheduler
    /\ budget = MaxToolCalls /\ execLog = << >> /\ approvalLog = << >>
    /\ lastOp = "none" /\ HooksIdle /\ FilterIdle /\ RestIdle

Init == Entry(FALSE)

otherVars == <<lastOp, hookVars, filterVars, restVars, dryrun, cancelled>>

\* ExecuteWithHistory, lines 605-618, and HandleTurn up to turn.Run: the
\* repetition check, NewTurn, the reset of the handler's tool responses
StartTurn ==
    /\ pc = "loop"
    /\ LoopContinues(i)
    /\ conversation' = IF detectRepetitiveActions(steps)
                       THEN Append(conversation, SystemMsg(RepetitionNudge))
                       ELSE conversation
    /\ turnConv' = conversation'
    /\ pendingCalls' = << >>
    /\ events' = << >>
    /\ toolResponses' = << >>
    /\ pc' = "run"
    /\ UNCHANGED <<i, steps, success, message, returnedErr, llmInput, llmCalls,
                   pendingApprovals, scheduler, budget, execLog, approvalLog, otherVars>>

\* the errors callLLM can return: Generate fails on a cancelled ctx; otherwise
\* a transport error or an empty choice list
GenerateErrors(ctxDone) ==
    IF ctxDone THEN {"context canceled"}
    ELSE {"connection refused", "no response choices from LLM"}

\* Turn.run with a failing callLLM
TurnRunLLMFails ==
    /\ pc = "run"
    /\ llmInput' = filterConversationForLLM(turnConv)
    /\ llmCalls' = llmCalls + 1
    /\ \E cause \in GenerateErrors(cancelled) :
         events' = Emit(events, ErrorEvent(cause))
    /\ pc' = "handle"
    /\ UNCHANGED <<i, conversation, steps, success, message, returnedErr, turnConv,
                   pendingCalls, toolResponses, pendingApprovals, scheduler, budget,
                   execLog, approvalLog, otherVars>>

\* Turn.run with an LLM response: the assistant message is appended, the
\* content and the tool calls are emitted, the eventStream is closed
TurnRun ==
    /\ pc = "run"
    /\ ~cancelled
    /\ llmInput' = filterConversationForLLM(turnConv)
    /\ llmCalls' = llmCalls + 1
    /\ \E calls \in Responses(Min(MaxCallsPerTurn, budget)) :
       \E content \in (IF calls = << >> THEN {"", "Done"} ELSE {""}) :
         LET t == handleToolCalls(
                     [pendingCalls |-> pendingCalls,
                      events |-> IF content # "" THEN Emit(events, ContentEvent(content))
                                 ELSE events],
                     calls)
         IN  /\ turnConv' = Append(turnConv, AssistantMsg(content, MessageToolCalls(calls)))
             /\ pendingCalls' = t.pendingCalls
             /\ events' = t.events
             /\ budget' = budget - Len(calls)
    /\ pc' = "handle"
    /\ UNCHANGED <<i, conversation, steps, success, message, returnedErr,
                   toolResponses, pendingApprovals, scheduler,
                   execLog, approvalLog, otherVars>>

TurnFailedBare(cause) ==
    /\ pc' = "done"
    /\ success' = FALSE
    /\ message' = cause
    /\ returnedErr' = TRUE

\* HandleTurn returns err; ExecuteWithHistory, lines 621-625
TurnFailed(cause) ==
    /\ pc' = "done"
    /\ success' = FALSE
    /\ message' = "Turn failed: " \o cause
    /\ returnedErr' = TRUE

\* TurnHandler.executeToolCall for a stored request, with the tool's outcome
executeToolCall(request, outcome) ==
    /\ toolResponses' = Append(toolResponses,
                               ToolMsg(request.Name, ToolContent(outcome), request.CallID))
    /\ execLog' = Append(execLog, [Turn |-> i, CallID |-> request.CallID,
                                   Name |-> request.Name, Command |-> request.Command,
                                   Error |-> outcome # "ok"])

\* handleContent
HandleContent ==
    /\ pc = "handle" /\ events # << >> /\ Head(events).Type = "Content"
    /\ events' = Tail(events)
    /\ UNCHANGED <<pc, i, conversation, steps, success, message, returnedErr, turnConv,
                   pendingCalls, llmInput, llmCalls, toolResponses, pendingApprovals,
                   scheduler, budget, execLog, approvalLog, otherVars>>

\* handleToolCallRequest of a Low risk call: executed at once
HandleLowRiskRequest ==
    /\ pc = "handle" /\ events # << >> /\ Head(events).Type = "ToolCallRequest"
    /\ AssessToolCallRisk(Head(events).Name) = "Low"
    /\ events' = Tail(events)
    /\ IF Head(events).Name \notin Tools
       THEN /\ TurnFailed("tool not found: " \o Head(events).Name)
            /\ UNCHANGED <<toolResponses, execLog, scheduler>>
       ELSE /\ \E outcome \in ToolOutcomes :
                 /\ executeToolCall(Head(events), outcome)
                 /\ scheduler' = MarkExecuted(scheduler, Head(events).CallID, TRUE,
                                              outcome = "err")
            /\ UNCHANGED <<pc, success, message, returnedErr>>
    /\ UNCHANGED <<i, conversation, steps, turnConv, pendingCalls, llmInput, llmCalls,
                   pendingApprovals, budget, approvalLog, otherVars>>

\* handleToolCallRequest of any other call: stored until its confirmation
HandleRiskyRequest ==
    /\ pc = "handle" /\ events # << >> /\ Head(events).Type = "ToolCallRequest"
    /\ AssessToolCallRisk(Head(events).Name) # "Low"
    /\ events' = Tail(events)
    /\ pendingApprovals' = Put(pendingApprovals, Head(events).CallID, Head(events))
    /\ UNCHANGED <<pc, i, conversation, steps, success, message, returnedErr, turnConv,
                   pendingCalls, llmInput, llmCalls, toolResponses,
                   scheduler, budget, execLog, approvalLog, otherVars>>

Without(f, id) == [x \in (DOMAIN f) \ {id} |-> f[x]]

\* handleToolCallConfirmation whose Details hold a nil pointer: the call is
\* scheduled and event.Details.GetRisk() dereferences nil
HandleConfirmationPanics ==
    /\ pc = "handle" /\ events # << >> /\ Head(events).Type = "ToolCallConfirmation"
    /\ Head(events).DetailsNil
    /\ scheduler' = ScheduleToolCalls(scheduler, <<Head(events).CallID>>)
    /\ pc' = "panic"
    /\ UNCHANGED <<i, conversation, steps, success, message, returnedErr, turnConv,
                   pendingCalls, events, llmInput, llmCalls, toolResponses,
                   pendingApprovals, budget, execLog, approvalLog, otherVars>>

\* handleToolCallConfirmation: schedule, ask the approver, execute or reject
HandleToolCallConfirmation ==
    /\ pc = "handle" /\ events # << >> /\ Head(events).Type = "ToolCallConfirmation"
    /\ ~Head(events).DetailsNil
    /\ events' = Tail(events)
    /\ LET callID    == Head(events).CallID
           scheduled == ScheduleToolCalls(scheduler, <<callID>>)
       IN  \E approval \in ApproverResponses(callID) :
             /\ approvalLog' = Append(approvalLog,
                                 [Turn |-> i, CallID |-> callID,
                                  ApprovedIDs |-> Range(approval.ApprovedIDs),
                                  RejectedIDs |-> Range(approval.RejectedIDs),
                                  Err |-> approval.Err])
             /\ IF approval.Err
                THEN /\ TurnFailed("approval error: invalid choice")
                     /\ scheduler' = scheduled
                     /\ UNCHANGED <<toolResponses, execLog, pendingApprovals>>
                ELSE IF ApprovalSelectsExecution(approval)
                THEN LET approved == ApproveCalls(scheduled, Range(approval.ApprovedIDs))
                     IN  IF callID \in DOMAIN pendingApprovals
                         THEN LET request == pendingApprovals[callID]
                              IN  IF request.Name \notin Tools
                                  THEN /\ TurnFailed("tool not found: " \o request.Name)
                                       /\ scheduler' = approved
                                       /\ UNCHANGED <<toolResponses, execLog,
                                                      pendingApprovals>>
                                  ELSE /\ \E outcome \in ToolOutcomes :
                                            /\ executeToolCall(request, outcome)
                                            /\ scheduler' = MarkExecuted(approved, callID,
                                                               TRUE, outcome = "err")
                                       /\ pendingApprovals' = Without(pendingApprovals, callID)
                                       /\ UNCHANGED <<pc, success, message, returnedErr>>
                         ELSE /\ scheduler' = approved
                              /\ pendingApprovals' = Without(pendingApprovals, callID)
                              /\ UNCHANGED <<pc, success, message, returnedErr,
                                             toolResponses, execLog>>
                ELSE /\ scheduler' = RejectCalls(scheduled, {callID})
                     /\ toolResponses' = Append(toolResponses,
                            ToolMsg(Head(events).Name, "Tool call rejected by user", callID))
                     /\ pendingApprovals' = Without(pendingApprovals, callID)
                     /\ UNCHANGED <<pc, success, message, returnedErr, execLog>>
    /\ UNCHANGED <<i, conversation, steps, turnConv, pendingCalls, llmInput, llmCalls,
                   budget, otherVars>>

\* handleError: the event's error ends HandleTurn
HandleError ==
    /\ pc = "handle" /\ events # << >> /\ Head(events).Type = "Error"
    /\ events' = Tail(events)
    /\ TurnFailed(Head(events).Cause)
    /\ UNCHANGED <<i, conversation, steps, turnConv, pendingCalls, llmInput, llmCalls,
                   toolResponses, pendingApprovals, scheduler, budget, execLog,
                   approvalLog, otherVars>>

\* ExecuteWithHistory, lines 627-698, once HandleTurn returned nil: the
\* conversation update, the completion test, the steps, the loop increment
\* and, when the loop ends, the step-cap check and the return
FinishTurn ==
    /\ pc = "handle" /\ events = << >>
    /\ LET updated == turnConv \o toolResponses
           done    == pendingCalls = << >>
           newSteps == IF done THEN steps
                       ELSE steps \o [k \in 1..Len(pendingCalls) |->
                                         ExecutionStep(pendingCalls[k])]
           leaves  == done \/ ~LoopContinues(i + 1)
           succ    == IF done THEN TRUE ELSE success
           msg     == IF done /\ Last(updated).Role = "assistant"
                      THEN Last(updated).Content ELSE message
       IN  /\ conversation' = updated
           /\ steps' = newSteps
           /\ i' = IF done THEN i ELSE i + 1
           /\ pc' = IF leaves THEN "done" ELSE "loop"
           /\ success' = IF leaves /\ StepCapReached(newSteps) THEN FALSE ELSE succ
           /\ message' = IF leaves /\ StepCapReached(newSteps)
                         THEN "Maximum steps reached" ELSE msg
    /\ UNCHANGED <<returnedErr, turnConv, pendingCalls, events, llmInput, llmCalls,
                   toolResponses, pendingApprovals, scheduler, budget, execLog,
                   approvalLog, otherVars>>

Next ==
    \/ StartTurn
    \/ TurnRunLLMFails
    \/ TurnRun
    \/ HandleContent
    \/ HandleLowRiskRequest
    \/ HandleRiskyRequest
    \/ HandleConfirmationPanics
    \/ HandleToolCallConfirmation
    \/ HandleError
    \/ FinishTurn

Spec == Init /\ [][Next]_vars

\* the caller cancels ctx while ExecuteWithHistory runs
Cancel ==
    /\ pc \in {"loop", "run", "handle"}
    /\ ~cancelled
    /\ cancelled' = TRUE
    /\ UNCHANGED <<pc, i, conversation, steps, success, message, returnedErr, dryrun,
                   turnConv, pendingCalls, events, llmInput, llmCalls, toolResponses,
                   pendingApprovals, scheduler, budget, execLog, approvalLog,
                   lastOp, hookVars, filterVars, restVars>>

CancelNext ==
    \/ Next
    \/ Cancel

CancelSpec == Init /\ [][CancelNext]_vars

\* the same loop entered with dryrun = true
DryRunInit == Entry(TRUE)

DryRunSpec == DryRunInit /\ [][Next]_vars

----------------------------------------------------------------------------
\* The scheduler under arbitrary sequences of its operations

SchedIDs == {"call1", "call2"}

SchedInit ==
    /\ scheduler = NewScheduler /\ lastOp = "none"
    /\ AgentIdle /\ HooksIdle /\ FilterIdle /\ RestIdle

schedOthers == <<agentVars, hookVars, filterVars, restVars>>

DoScheduleToolCalls ==
    /\ \E ids \in SeqsUpTo(SchedIDs, 2) \ {<< >>} :
         scheduler' = ScheduleToolCalls(scheduler, ids)
    /\ lastOp' = "ScheduleToolCalls"
    /\ UNCHANGED schedOthers

DoApproveCalls ==
    /\ \E ids \in (SUBSET SchedIDs) \ {{}} : scheduler' = ApproveCalls(scheduler, ids)
    /\ lastOp' = "ApproveCalls"
    /\ UNCHANGED schedOthers

DoRejectCalls ==
    /\ \E ids \in (SUBSET SchedIDs) \ {{}} : scheduler' = RejectCalls(scheduler, ids)
    /\ lastOp' = "RejectCalls"
    /\ UNCHANGED schedOthers

DoMarkExecuted ==
    /\ \E id \in SchedIDs, result \in BOOLEAN, err \in BOOLEAN :
         scheduler' = MarkExecuted(scheduler, id, result, err)
    /\ lastOp' = "MarkExecuted"
    /\ UNCHANGED schedOthers

DoClear ==
    /\ scheduler' = Clear(scheduler)
    /\ lastOp' = "Clear"
    /\ UNCHANGED schedOthers

SchedNext ==
    \/ DoScheduleToolCalls
    \/ DoApproveCalls
    \/ DoRejectCalls
    \/ DoMarkExecuted
    \/ DoClear

SchedSpec == SchedInit /\ [][SchedNext]_vars

----------------------------------------------------------------------------
\* The hook manager for the hooks of one event

HookEvents == {PreToolUse, PostToolUse, UserPromptSubmit}

\* what one hook command may do; exit code -1 without an error is a command
\* killed when its timeout expired
HookResultChoices ==
    { Ran(0, NoStdout, ""),
      Ran(0, TextStdout, ""),
      Ran(1, NoStdout, "warning"),
      Ran(2, NoStdout, "policy deny"),
      RunFailed,
      Ran(-1, NoStdout, ""),
      Ran(0, JsonStdout("true", "", "", "", "", ""), ""),
      Ran(0, JsonStdout("false", "stop now", "", "", "", ""), ""),
      Ran(0, JsonStdout("true", "", "approve", "trusted", "", ""), ""),
      Ran(0, JsonStdout("true", "", "block", "not allowed", "", ""), ""),
      Ran(0, JsonStdout("true", "", "", "", "allow", "safe file"), ""),
      Ran(0, JsonStdout("true", "", "", "", "deny", "unsafe file"), ""),
      Ran(0, JsonStdout("absent", "", "", "", "allow", "safe file"), "") }

HookInit ==
    /\ HooksIdle
    /\ scheduler = NewScheduler /\ lastOp = "none"
    /\ AgentIdle /\ FilterIdle /\ RestIdle

hookOthers == <<agentVars, scheduler, lastOp, filterVars, restVars>>

\* ExecuteHooks: every matched hook has run, the outputs are collected
ExecuteHooks ==
    /\ hookPhase = "idle"
    /\ \E event \in HookEvents, results \in SeqsUpTo(HookResultChoices, MaxHooks) :
         /\ hookEvent' = event
         /\ hookResults' = results
         /\ hookOutputs' = CollectOutputs(event, results)
    /\ hookPhase' = "executed"
    /\ blockResult' = NoDecision
    /\ approveResult' = NoApproval
    /\ UNCHANGED hookOthers

CallShouldBlockToolExecution ==
    /\ hookPhase = "executed"
    /\ blockResult' = ShouldBlockToolExecution(hookOutputs)
    /\ hookPhase' = "blockDecided"
    /\ UNCHANGED <<hookEvent, hookResults, hookOutputs, approveResult, hookOthers>>

CallShouldAutoApprove ==
    /\ hookPhase = "blockDecided"
    /\ approveResult' = ShouldAutoApprove(hookOutputs)
    /\ hookPhase' = "decided"
    /\ UNCHANGED <<hookEvent, hookResults, hookOutputs, blockResult, hookOthers>>

\* the next event
HookEventDone ==
    /\ hookPhase = "decided"
    /\ hookPhase' = "idle"
    /\ UNCHANGED <<hookEvent, hookResults, hookOutputs, blockResult, approveResult,
                   hookOthers>>

HookNext ==
    \/ ExecuteHooks
    \/ CallShouldBlockToolExecution
    \/ CallShouldAutoApprove
    \/ HookEventDone

HookSpec == HookInit /\ [][HookNext]_vars

----------------------------------------------------------------------------
\* The orphan filter on arbitrary conversations

FilterMessages ==
    { UserMsg("task"),
      AssistantMsg("", NoCalls),
      AssistantMsg("", <<[ID |-> "call1", Name |-> "read_file"]>>),
      AssistantMsg("", <<[ID |-> "call1", Name |-> "read_file"],
                         [ID |-> "call2", Name |-> "run_shell"]>>),
      ToolMsg("read_file", "result", "call1"),
      ToolMsg("run_shell", "result", "call2"),
      ToolMsg("read_file", "result", "call9") }

FilterInit ==
    /\ filterIn \in SeqsUpTo(FilterMessages, MaxFilterLen)
    /\ filterOut = << >> /\ filterDone = FALSE
    /\ scheduler = NewScheduler /\ lastOp = "none"
    /\ AgentIdle /\ HooksIdle /\ RestIdle

\* callLLM, line 487
ApplyFilter ==
    /\ ~filterDone
    /\ filterOut' = filterConversationForLLM(filterIn)
    /\ filterDone' = TRUE
    /\ UNCHANGED <<filterIn, agentVars, scheduler, lastOp, hookVars, restVars>>

FilterNext == ApplyFilter

FilterSpec == FilterInit /\ [][FilterNext]_vars

----------------------------------------------------------------------------
\* Properties of the conversation

\* positions after p up to the next assistant message
TurnSegment(conv, p) ==
    {q \in (p + 1)..Len(conv) : \A r \in (p + 1)..q : conv[r].Role # "assistant"}

ResponsesTo(conv, p, id) ==
    {q \in TurnSegment(conv, p) : conv[q].Role = "tool" /\ conv[q].ToolCallID = id}

RECURSIVE ToolCallIDs(_)
ToolCallIDs(ms) ==
    IF ms = << >> THEN << >>
    ELSE (IF Head(ms).Role = "tool" THEN <<Head(ms).ToolCallID>> ELSE << >>)
         \o ToolCallIDs(Tail(ms))

\* ids of the tool messages that follow the assistant message at p
ToolIDsAfter(conv, p) ==
    ToolCallIDs([q \in 1..Cardinality(TurnSegment(conv, p)) |-> conv[p + q]])

RequestedIDs(m) == [k \in 1..Len(m.ToolCalls) |-> m.ToolCalls[k].ID]

BetweenTurns == pc \in {"loop", "done"}

\* C1: between turns, every tool call listed in an assistant message of the
\* conversation has exactly one tool message with its id after that message
\* and before the next assistant message.
C1_ResponseCoverage ==
    BetweenTurns =>
        \A p \in 1..Len(conversation) :
            conversation[p].Role = "assistant" =>
                \A k \in 1..Len(conversation[p].ToolCalls) :
                    Cardinality(ResponsesTo(conversation, p,
                                            conversation[p].ToolCalls[k].ID)) = 1

OrphanFree(ms) ==
    \A q \in 1..Len(ms) :
        ms[q].Role = "tool" =>
            /\ q > 1
            /\ ms[q - 1].Role = "assistant"
            /\ \E k \in 1..Len(ms[q - 1].ToolCalls) :
                   ms[q - 1].ToolCalls[k].ID = ms[q].ToolCallID

\* C2: in the list filterConversationForLLM returns, every tool message is
\* immediately preceded by an assistant message whose tool_calls hold the
\* tool message's tool_call_id.
C2_OrphanSafety == filterDone => OrphanFree(filterOut)

\* C3: between turns, the ids of the tool messages that follow an assistant
\* message are, in order, the ids of that message's tool_calls.
C3_OrderPreserved ==
    BetweenTurns =>
        \A p \in 1..Len(conversation) :
            conversation[p].Role = "assistant" =>
                ToolIDsAfter(conversation, p) = RequestedIDs(conversation[p])

----------------------------------------------------------------------------
\* Properties of approval

ApprovalsOf(e) ==
    {a \in 1..Len(approvalLog) :
        approvalLog[a].Turn = e.Turn /\ approvalLog[a].CallID = e.CallID}

\* C4: a call whose risk is not Low is executed only when the approver's
\* response to its request holds its id in approved_ids, and a call the
\* approver rejected is not executed.
C4_RiskGating ==
    /\ \A k \in 1..Len(execLog) :
          AssessToolCallRisk(execLog[k].Name) # "Low" =>
              \E a \in ApprovalsOf(execLog[k]) :
                  execLog[k].CallID \in approvalLog[a].ApprovedIDs
    /\ \A a \in 1..Len(approvalLog) :
          approvalLog[a].CallID \in approvalLog[a].RejectedIDs =>
              \A k \in 1..Len(execLog) : a \notin ApprovalsOf(execLog[k])

\* a risky call was approved and executed, another was rejected
C4_Witness ==
    /\ \E k \in 1..Len(execLog) : AssessToolCallRisk(execLog[k].Name) # "Low"
    /\ \E a \in 1..Len(approvalLog) :
          approvalLog[a].CallID \in approvalLog[a].RejectedIDs

----------------------------------------------------------------------------
\* Properties of the scheduler

AllowedTransitions ==
    { <<StatusPending, StatusApproved>>, <<StatusPending, StatusRejected>>,
      <<StatusApproved, StatusExecuted>>, <<StatusApproved, StatusFailed>> }

\* C5: in every step of the scheduler a call id that keeps its entry keeps
\* its status or changes it along Pending->Approved, Pending->Rejected,
\* Approved->Executed, Approved->Failed.
C5_SchedulerMonotonic ==
    [][\A id \in (DOMAIN scheduler) \cap (DOMAIN scheduler') :
           \/ scheduler'[id].Status = scheduler[id].Status
           \/ <<scheduler[id].Status, scheduler'[id].Status>> \in AllowedTransitions]_vars

----------------------------------------------------------------------------
\* Properties of the hook decisions

SaysApprove(output) ==
    \/ output.HookSpecificOutput.PermissionDecision = "allow"
    \/ output.Decision = "approve"

SaysBlock(output) ==
    \/ ~output.Continue
    \/ output.HookSpecificOutput.PermissionDecision = "deny"
    \/ output.Decision \in {"deny", "block"}

BlockingOutputs == {k \in 1..Len(hookOutputs) : SaysBlock(hookOutputs[k])}

ReasonOfBlock(output) ==
    IF ~output.Continue THEN output.StopReason
    ELSE IF output.HookSpecificOutput.PermissionDecision = "deny"
    THEN output.HookSpecificOutput.PermissionDecisionReason
    ELSE output.Reason

\* C6: ShouldAutoApprove answers true exactly when some output of the event
\* is approving (permissionDecision allow or decision approve) and no output
\* is blocking.
C6_AutoApproveIff ==
    hookPhase = "decided" =>
        (approveResult.Approve <=>
            /\ \E k \in 1..Len(hookOutputs) : SaysApprove(hookOutputs[k])
            /\ BlockingOutputs = {})

\* C7: ShouldBlockToolExecution answers true exactly when some output has
\* continue false, permissionDecision deny or decision deny or block, and the
\* reason it returns is that of the first such output.
C7_BlockIff ==
    hookPhase \in {"blockDecided", "decided"} =>
        /\ blockResult.Block <=> BlockingOutputs # {}
        /\ blockResult.Block =>
              \E k \in BlockingOutputs :
                  /\ \A j \in BlockingOutputs : k <= j
                  /\ blockResult.Reason = ReasonOfBlock(hookOutputs[k])

PreToolUseDecision(request) ==
    ShouldBlockToolExecution(
        CollectOutputs(PreToolUse, PreToolUseHookResults(request.Name, request.Command)))

\* the call is handed to executeToolCall: its risk is Low or the approver
\* approved it
ReachesExecution(request) ==
    \/ AssessToolCallRisk(request.Name) = "Low"
    \/ \E a \in ApprovalsOf([Turn |-> i, CallID |-> request.CallID]) :
           request.CallID \in approvalLog[a].ApprovedIDs

\* C8: once the events of a turn are handled, every call of the turn that
\* reached execution and that a PreToolUse hook blocks was not executed, has
\* exactly one tool message "Tool execution blocked: <reason>" and is Failed
\* in the scheduler, and the turn did not end the run.
C8_BlockedCallNotExecuted ==
    (pc = "handle" /\ events = << >>) =>
        \A k \in 1..Len(pendingCalls) :
            (ReachesExecution(pendingCalls[k])
                 /\ PreToolUseDecision(pendingCalls[k]).Block) =>
                /\ \A e \in 1..Len(execLog) :
                      ~(execLog[e].Turn = i /\ execLog[e].CallID = pendingCalls[k].CallID)
                /\ Cardinality({q \in 1..Len(toolResponses) :
                       /\ toolResponses[q].ToolCallID = pendingCalls[k].CallID
                       /\ toolResponses[q].Content =
                              "Tool execution blocked: "
                                  \o PreToolUseDecision(pendingCalls[k]).Reason}) = 1
                /\ pendingCalls[k].CallID \in DOMAIN scheduler
                /\ scheduler[pendingCalls[k].CallID].Status = StatusFailed

----------------------------------------------------------------------------
\* Properties of the main loop

\* two of the last three steps ran the shell tool with the same command
RepeatedShellCommand(executedSteps) ==
    /\ Len(executedSteps) >= 3
    /\ \E j, k \in (Len(executedSteps) - 2)..Len(executedSteps) :
          /\ j < k
          /\ executedSteps[j].ToolName = "run_shell"
          /\ executedSteps[k].ToolName = "run_shell"
          /\ executedSteps[j].Command = executedSteps[k].Command

\* C9: when the last three steps hold a repeated shell command, the loop
\* starts the next turn with the nudge appended to its conversation, and the
\* list given to the LLM in that turn ends with the nudge.
C9_RepetitionNudge ==
    [][/\ (pc = "loop" /\ RepeatedShellCommand(steps)) =>
              /\ pc' = "run"
              /\ Last(turnConv') = SystemMsg(RepetitionNudge)
       /\ (pc = "run" /\ RepeatedShellCommand(steps)) =>
              /\ pc' = "handle"
              /\ llmCalls' = llmCalls + 1
              /\ Last(llmInput') = SystemMsg(RepetitionNudge)]_vars

\* the LLM was called with the nudge after a repeated shell command
C9_Witness ==
    /\ pc = "handle" /\ RepeatedShellCommand(steps)
    /\ Last(llmInput) = SystemMsg(RepetitionNudge)

\* turns whose assistant message lists at least one tool call
TurnsWithToolCalls ==
    Cardinality({p \in 1..Len(turnConv) :
        turnConv[p].Role = "assistant" /\ turnConv[p].ToolCalls # << >>})

EveryTurnCalledTools == llmCalls = maxSteps /\ TurnsWithToolCalls = maxSteps

\* C10 as stated: at most maxSteps turns are started, and a run whose
\* maxSteps turns each produced a tool call ends with success false and
\* "Maximum steps reached".
C10_StepCapAsStated ==
    /\ llmCalls <= maxSteps
    /\ (pc = "done" /\ EveryTurnCalledTools) =>
           (~success /\ message = "Maximum steps reached")

\* C10 amended: at most maxSteps turns are started, and a run whose maxSteps
\* turns each produced a tool call and none of which returned an error ends
\* after maxSteps iterations with success false and "Maximum steps reached".
C10_StepCap ==
    /\ llmCalls <= maxSteps
    /\ (pc = "done" /\ ~returnedErr /\ EveryTurnCalledTools) =>
           (i = maxSteps /\ ~success /\ message = "Maximum steps reached")

C10_Witness == pc = "done" /\ ~returnedErr /\ EveryTurnCalledTools

----------------------------------------------------------------------------
\* Properties of the outcome of a run

\* the run returned from a turn whose assistant message lists no tool call
CompletedWithoutToolCalls ==
    /\ pc = "done" /\ ~returnedErr
    /\ turnConv # << >>
    /\ Last(turnConv).Role = "assistant"
    /\ Last(turnConv).ToolCalls = << >>

\* C11: a run that returns from a turn without tool calls returns success
\* true and the content of that turn's assistant message, whatever number of
\* tool calls the earlier turns made.
C11_CompletionSucceeds ==
    CompletedWithoutToolCalls =>
        (success /\ message = Last(turnConv).Content)

\* C12: in a run entered with dryrun = true no tool that is not read-only
\* is invoked.
C12_DryRunInvokesReadOnlyOnly ==
    dryrun => \A k \in 1..Len(execLog) : ReadOnly(execLog[k].Name)

----------------------------------------------------------------------------
\* The approvers: InteractiveApprover, SimpleAutoApprover,
\* RestrictedAutoApprover

MaxRequestCalls == 2
MaxInputLines == 2

ApprovalResponse(approved, rejected, err) ==
    [ApprovedIDs |-> approved, RejectedIDs |-> rejected, Err |-> err]

IDsOf(calls) == [k \in 1..Len(calls) |-> calls[k].ID]

\* the calls of the request whose tool name is (not) in the set names
CallsNamed(request, names)    == SelectSeq(request, LAMBDA c : c.Name \in names)
CallsNotNamed(request, names) == SelectSeq(request, LAMBDA c : c.Name \notin names)

\* strconv.Atoi of the comma separated parts of the selection line, as
\* 1-based positions
SelectedIndices(line) ==
    CASE line = "1"   -> {1}
      [] line = "2"   -> {2}
      [] line = "1,2" -> {1, 2}
      [] OTHER        -> {}

RECURSIVE SplitBySelection(_, _, _, _)
SplitBySelection(request, k, selected, response) ==
    IF k > Len(request) THEN response
    ELSE SplitBySelection(request, k + 1, selected,
             IF k \in selected
             THEN [response EXCEPT !.ApprovedIDs = Append(@, request[k].ID)]
             ELSE [response EXCEPT !.RejectedIDs = Append(@, request[k].ID)])

\* InteractiveApprover.selectiveApproval; lines are the lines still to be
\* read from the scanner, none left meaning Scan() fails
selectiveApproval(request, autoReject, lines) ==
    IF lines = << >> THEN ApprovalResponse(<< >>, << >>, FALSE)
    ELSE IF Head(lines) = "all"
    THEN ApprovalResponse(IDsOf(CallsNotNamed(request, autoReject)), << >>, FALSE)
    ELSE IF Head(lines) = "none"
    THEN ApprovalResponse(<< >>, IDsOf(request), FALSE)
    ELSE SplitBySelection(request, 1, SelectedIndices(Head(lines)),
                          ApprovalResponse(<< >>, << >>, FALSE))

\* InteractiveApprover.RequestApproval
RECURSIVE InteractiveRequestApproval(_, _, _, _)
InteractiveRequestApproval(request, autoApprove, autoReject, lines) ==
    LET rejected        == IDsOf(CallsNamed(request, autoReject))
        allAutoApproved == \A k \in 1..Len(request) :
                               request[k].Name \in autoReject \cup autoApprove
    IN  IF allAutoApproved /\ rejected = << >>
        THEN ApprovalResponse(IDsOf(request), << >>, FALSE)
        ELSE IF lines = << >>
        THEN ApprovalResponse(<< >>, rejected, TRUE)
        ELSE CASE Head(lines) \in {"y", "yes"} ->
                    ApprovalResponse(IDsOf(CallsNotNamed(request, autoReject)),
                                     rejected, FALSE)
               [] Head(lines) \in {"n", "no"} ->
                    ApprovalResponse(<< >>, rejected \o IDsOf(request), FALSE)
               [] Head(lines) \in {"s", "select"} ->
                    selectiveApproval(request, autoReject, Tail(lines))
               [] Head(lines) \in {"i", "info"} ->
                    InteractiveRequestApproval(request, autoApprove, autoReject,
                                               Tail(lines))
               [] OTHER -> ApprovalResponse(<< >>, rejected, TRUE)

\* SimpleAutoApprover.RequestApproval
SimpleRequestApproval(request) == ApprovalResponse(IDsOf(request), << >>, FALSE)

\* RestrictedAutoApprover.RequestApproval
RestrictedRequestApproval(allowedTools, request) ==
    ApprovalResponse(IDsOf(CallsNamed(request, allowedTools)),
                     IDsOf(CallsNotNamed(request, allowedTools)), FALSE)

getToolsForAgentType(agentType) ==
    CASE agentType = "searcher" ->
            {"read_file", "read", "list_files", "grep", "glob", "read_many_files"}
      [] agentType = "analyzer" ->
            {"read_file", "read", "list_files", "grep", "glob", "read_many_files",
             "todo_read"}
      [] agentType = "executor" -> {"run_shell", "read_file", "list_files"}
      [] OTHER -> {}

\* requests: up to MaxRequestCalls calls with distinct ids
RequestChoices ==
    UNION { { [k \in 1..n |-> [ID |-> ProviderID(k), Name |-> names[k]]] :
                names \in [1..n -> Tools] } : n \in 1..MaxRequestCalls }

\* what the user may type at a prompt
InputLines == {"y", "n", "s", "i", "all", "none", "1", "2", "1,2", "x"}

AutoListChoices == SUBSET {"read_file", "run_shell"}

ApproverInit ==
    /\ ApproverIdle /\ SubAgentIdle /\ CompactIdle /\ ExtIdle
    /\ scheduler = NewScheduler /\ lastOp = "none"
    /\ AgentIdle /\ HooksIdle /\ FilterIdle

approverOthers == <<agentVars, scheduler, lastOp, hookVars, filterVars, subAgentVars,
                    compactVars, extVars>>

AskInteractiveApprover ==
    /\ approverKind = "none"
    /\ \E request \in RequestChoices, autoApprove \in AutoListChoices,
          autoReject \in AutoListChoices, lines \in SeqsUpTo(InputLines, MaxInputLines) :
         /\ approvalRequest' = request
         /\ approverSetup' = [NoSetup EXCEPT !.AutoApprove = autoApprove,
                                             !.AutoReject = autoReject,
                                             !.Lines = lines]
         /\ approvalResponse' =
                InteractiveRequestApproval(request, autoApprove, autoReject, lines)
    /\ approverKind' = "interactive"
    /\ UNCHANGED approverOthers

AskSimpleAutoApprover ==
    /\ approverKind = "none"
    /\ \E request \in RequestChoices :
         /\ approvalRequest' = request
         /\ approvalResponse' = SimpleRequestApproval(request)
    /\ approverSetup' = NoSetup
    /\ approverKind' = "simple"
    /\ UNCHANGED approverOthers

AskRestrictedAutoApprover ==
    /\ approverKind = "none"
    /\ \E request \in RequestChoices, agentType \in {"searcher", "analyzer"} :
         /\ approvalRequest' = request
         /\ approverSetup' = [NoSetup EXCEPT !.AllowedTools = getToolsForAgentType(agentType)]
         /\ approvalResponse' =
                RestrictedRequestApproval(getToolsForAgentType(agentType), request)
    /\ approverKind' = "restricted"
    /\ UNCHANGED approverOthers

\* the response was consumed; the approver waits for the next request
ApprovalHandled ==
    /\ approverKind # "none"
    /\ approverKind' = "none" /\ approverSetup' = NoSetup
    /\ approvalRequest' = << >>
    /\ approvalResponse' = ApprovalResponse(<< >>, << >>, FALSE)
    /\ UNCHANGED approverOthers

ApproverNext ==
    \/ AskInteractiveApprover
    \/ AskSimpleAutoApprover
    \/ AskRestrictedAutoApprover
    \/ ApprovalHandled

ApproverSpec == ApproverInit /\ [][ApproverNext]_vars

\* C13: whenever an approver returns without error, the approved ids
\* together with the rejected ids are exactly the call ids of the request.
C13_ApprovalPartition ==
    (approverKind # "none" /\ ~approvalResponse.Err) =>
        Range(approvalResponse.ApprovedIDs) \cup Range(approvalResponse.RejectedIDs)
            = Range(IDsOf(approvalRequest))

----------------------------------------------------------------------------
\* Sub-agents created by agent_tool

MaxSubAgentCalls == 2

\* names of tools.GetDefaultTools()
DefaultToolNames ==
    {"write_file", "run_shell", "read", "read_file", "list_files", "grep", "glob",
     "edit", "multi_edit", "read_many_files", "apply_patch", "todo_write", "todo_read"}

AgentTypes == {"general-purpose", "searcher", "analyzer", "executor"}

\* the approver the factory of CreateAgentTool gives the sub-agent
FactoryApprover(agentType) ==
    IF agentType \in {"searcher", "analyzer"}
    THEN [Kind |-> "restricted", AllowedTools |-> getToolsForAgentType(agentType)]
    ELSE [Kind |-> "simple", AllowedTools |-> {}]

\* the tools the factory passes in WithTools
FactoryTools(agentType) ==
    IF agentType \in {"searcher", "analyzer"}
    THEN DefaultToolNames \cap getToolsForAgentType(agentType)
    ELSE {}

NewAgentToolsWithAgentTool(optionTools) ==
    optionTools \cup DefaultToolNames \cup {"agent_tool"}

\* NewAgent: the options are applied, then every default tool is registered
NewAgentTools(optionTools) == optionTools \cup DefaultToolNames

ApproverAnswer(approver, request) ==
    IF approver.Kind = "restricted"
    THEN RestrictedRequestApproval(approver.AllowedTools, request)
    ELSE SimpleRequestApproval(request)

\* whether the sub-agent's Turn and TurnHandler reach tool.Execute for a call
\* of the named tool
SubAgentExecutes(toolName) ==
    /\ toolName \in subAgentTools
    /\ \/ AssessToolCallRisk(toolName) = "Low"
       \/ ApprovalSelectsExecution(
              ApproverAnswer(subAgentApprover,
                             <<[ID |-> ProviderID(1), Name |-> toolName]>>))

SubAgentInit ==
    /\ SubAgentIdle /\ ApproverIdle /\ CompactIdle /\ ExtIdle
    /\ scheduler = NewScheduler /\ lastOp = "none"
    /\ AgentIdle /\ HooksIdle /\ FilterIdle

subAgentOthers == <<agentVars, scheduler, lastOp, hookVars, filterVars, approverVars,
                    compactVars, extVars>>

\* AgentTool.Execute up to the creation of the sub-agent
CreateSubAgent ==
    /\ subAgentType = "none"
    /\ \E agentType \in AgentTypes :
         /\ subAgentType' = agentType
         /\ subAgentApprover' = FactoryApprover(agentType)
         /\ subAgentTools' = NewAgentTools(FactoryTools(agentType))
    /\ subAgentLog' = << >>
    /\ UNCHANGED subAgentOthers

\* one tool call of the sub-agent's LLM
SubAgentToolCall ==
    /\ subAgentType # "none"
    /\ Len(subAgentLog) < MaxSubAgentCalls
    /\ \E toolName \in DefaultToolNames \cup {"bogus"} :
         subAgentLog' = Append(subAgentLog,
                               [Name |-> toolName, Executed |-> SubAgentExecutes(toolName)])
    /\ UNCHANGED <<subAgentType, subAgentTools, subAgentApprover, subAgentOthers>>

\* the sub-agent's ExecuteWithHistory returns to AgentTool.Execute
SubAgentReturns ==
    /\ subAgentType # "none"
    /\ subAgentType' = "none" /\ subAgentTools' = {}
    /\ subAgentApprover' = NoApprover /\ subAgentLog' = << >>
    /\ UNCHANGED subAgentOthers

SubAgentNext ==
    \/ CreateSubAgent
    \/ SubAgentToolCall
    \/ SubAgentReturns

SubAgentSpec == SubAgentInit /\ [][SubAgentNext]_vars

\* the tool set the sub-agent types are limited to
ReadSearchListTools ==
    {"read", "read_file", "read_many_files", "list_files", "grep", "glob", "todo_read"}

LimitedToolSet(agentType) ==
    CASE agentType \in {"searcher", "analyzer"} -> ReadSearchListTools
      [] agentType = "executor" -> ReadSearchListTools \cup {"run_shell"}
      [] OTHER -> DefaultToolNames

\* C14: a searcher, analyzer or executor sub-agent executes only tools of
\* its type's tool set.
C14_SubAgentToolSet ==
    \A k \in 1..Len(subAgentLog) :
        subAgentLog[k].Executed => subAgentLog[k].Name \in LimitedToolSet(subAgentType)

----------------------------------------------------------------------------
\* a tool.Execute started although ctx was already cancelled
NoExecutionAfterCancel == [][cancelled => execLog' = execLog]_vars

\* a return of ExecuteWithHistory after the cancellation
ReturnsFailureAfterCancel == [](pc = "done" /\ cancelled => ~success)

\* C15: once ctx is cancelled during ExecuteWithHistory no new tool
\* execution is started and the invocation returns success = false
C15_CancellationStops == NoExecutionAfterCancel /\ ReturnsFailureAfterCancel

----------------------------------------------------------------------------
\* the approvals of the running turn that rejected their call
RejectionsOfTurn ==
    {a \in 1..Len(approvalLog) :
        /\ approvalLog[a].Turn = i /\ ~approvalLog[a].Err
        /\ approvalLog[a].CallID \in approvalLog[a].RejectedIDs}

\* a step of handleToolCallConfirmation in which the approver rejects the call
RejectionStep ==
    /\ Len(approvalLog') = Len(approvalLog) + 1
    /\ ~Last(approvalLog').Err
    /\ Last(approvalLog').CallID \in Last(approvalLog').RejectedIDs

RejectedCallHandled ==
    LET callID == Last(approvalLog').CallID
    IN  /\ execLog' = execLog
        /\ callID \in DOMAIN scheduler'
        /\ scheduler'[callID].Status = StatusRejected
        /\ toolResponses' = Append(toolResponses,
               ToolMsg(Head(events).Name, "Tool call rejected by user", callID))
        /\ pc' = "handle" /\ ~returnedErr'

RejectedCallsOfTurnAnswered ==
    pc = "handle" =>
        \A a \in RejectionsOfTurn :
            LET callID == approvalLog[a].CallID
                answers == {k \in 1..Len(toolResponses) :
                               toolResponses[k].ToolCallID = callID}
            IN  /\ Cardinality(answers) = 1
                /\ \A k \in answers :
                       toolResponses[k].Content = "Tool call rejected by user"
                /\ \A k \in 1..Len(execLog) :
                       ~(execLog[k].Turn = i /\ execLog[k].CallID = callID)

\* C16: when the approver rejects a call the tool is not invoked, the
\* scheduler entry of the call becomes Rejected, exactly one tool message
\* "Tool call rejected by user" answers the call, and the turn goes on.
C16_RejectionHandled ==
    /\ [][RejectionStep => RejectedCallHandled]_vars
    /\ []RejectedCallsOfTurnAnswered

\* a call was rejected in an earlier turn and a later LLM call was made
C16_Witness ==
    /\ pc = "handle"
    /\ \E a \in 1..Len(approvalLog) :
          /\ approvalLog[a].CallID \in approvalLog[a].RejectedIDs
          /\ approvalLog[a].Turn < i
          /\ scheduler[approvalLog[a].CallID].Status = StatusRejected
    /\ llmCalls = i + 1

----------------------------------------------------------------------------
\* the calls of the turn that name a tool the registry does not hold
UnknownToolCalls == {k \in 1..Len(pendingCalls) : pendingCalls[k].Name \notin Tools}

\* C17: a call of a tool absent from the registry does not end the
\* invocation, and once its turn is handled a tool message with its call id
\* is part of the conversation.
C17_UnknownToolAnswered ==
    \A k \in UnknownToolCalls :
        /\ ~(pc = "done" /\ returnedErr
             /\ message = "Turn failed: tool not found: " \o pendingCalls[k].Name)
        /\ (BetweenTurns /\ ~returnedErr) =>
               \E q \in 1..Len(conversation) :
                   /\ conversation[q].Role = "tool"
                   /\ conversation[q].ToolCallID = pendingCalls[k].CallID

----------------------------------------------------------------------------
\* the executions of the running turn whose tool reported an error
FailedExecutionsOfTurn ==
    {k \in 1..Len(execLog) : execLog[k].Turn = i /\ execLog[k].Error}

BeginsWithError(content) == content = "Error: failed"

\* C18: while the turn of an execution that reported an error is handled,
\* the call was executed once, its scheduler entry is Failed, its tool
\* message begins with "Error: ", and the invocation has not ended.
C18_FailedExecution ==
    pc = "handle" =>
        \A k \in FailedExecutionsOfTurn :
            LET callID == execLog[k].CallID
            IN  /\ \A j \in FailedExecutionsOfTurn : execLog[j].CallID = callID => j = k
                /\ callID \in DOMAIN scheduler =>
                       scheduler[callID].Status = StatusFailed
                /\ \E q \in 1..Len(toolResponses) :
                       /\ toolResponses[q].ToolCallID = callID
                       /\ BeginsWithError(toolResponses[q].Content)
                /\ ~returnedErr

----------------------------------------------------------------------------
\* the error event of a failed LLM call is the next event to handle
TurnLLMFailed ==
    /\ pc = "handle" /\ events # << >>
    /\ Head(events).Type = "Error"
    /\ Head(events).Cause \in GenerateErrors(FALSE) \cup GenerateErrors(TRUE)

\* Turn.run ended without an assistant message: callLLM returned an error
LLMCallFails == pc = "run" /\ pc' = "handle" /\ turnConv' = turnConv

\* C19: a failing LLM call is the last LLM call of the invocation, which
\* returns success = false and the message "Turn failed: <cause>".
C19_LLMFailureEndsRun ==
    /\ [][LLMCallFails => TurnLLMFailed']_vars
    /\ [][TurnLLMFailed =>
             /\ pc' = "done" /\ ~success' /\ returnedErr'
             /\ message' = "Turn failed: " \o Head(events).Cause
             /\ llmCalls' = llmCalls]_vars
    /\ [][pc = "done" => llmCalls' = llmCalls]_vars

\* the LLM call of a later turn failed and the invocation returned
C19_Witness ==
    /\ pc = "done" /\ llmCalls >= 2 /\ steps # << >>
    /\ message = "Turn failed: no response choices from LLM"

----------------------------------------------------------------------------
\* The session command compact: SummarizeConversation and the replacement of
\* the session conversation

\* largest number of messages after the two prompts
MaxSessionLen == 3

\* A message of the session. Its content is kept as the number of bytes of
\* its text and whether the text contains "[SYSTEM]"; the summary marker
\* also keeps the numbers CreateSummaryMessage prints into it.
SessionMsg(role, bytes, tagged) ==
    [Role |-> role, Bytes |-> bytes, Tagged |-> tagged, Marker |-> FALSE,
     OriginalTokens |-> 0, SummaryTokens |-> 0, RatioTenths |-> 0, TokensSaved |-> 0]

RECURSIVE Sum(_)
Sum(ns) == IF ns = << >> THEN 0 ELSE Head(ns) + Sum(Tail(ns))

\* filterUserAssistantMessages
filterUserAssistantMessages(msgs) ==
    SelectSeq(msgs, LAMBDA m :
        m.Role = "assistant" \/ (m.Role = "user" /\ ~m.Tagged))

\* estimateTokens over the byte lengths of the contents
estimateTokens(lengths) ==
    Sum([k \in 1..Len(lengths) |-> lengths[k] + 10]) \div 4

\* fmt's %.1f of num / den, in tenths. A quotient exactly between two tenths
\* is rounded to the even one when the float64 holds it exactly (its
\* denominator is 4); otherwise the digit follows the float64 nearest to the
\* quotient, which lies on either side.
FormatOneDecimalDown(num, den) == {(10 * num) \div den}

FormatOneDecimal(num, den) ==
    LET q == (10 * num) \div den
        r == (10 * num) % den
    IN  IF 2 * r < den THEN {q}
        ELSE IF 2 * r > den THEN {q + 1}
        ELSE IF (4 * num) % den = 0
             THEN {IF q % 2 = 0 THEN q ELSE q + 1}
             ELSE {q, q + 1}

\* what the summarization model answers: an error, no choice, or a text of
\* the given number of bytes after TrimSpace
SummaryLengths == {0, 2, 6, 14, 30}
GenerateAnswers == {[Kind |-> "error", Bytes |-> 0], [Kind |-> "noChoices", Bytes |-> 0]}
                   \cup {[Kind |-> "text", Bytes |-> n] : n \in SummaryLengths}

SummarizeConversationAnyLength(msgs, answer) ==
    LET userAssistantMessages == filterUserAssistantMessages(msgs)
    IN  IF answer.Kind # "text" \/ answer.Bytes = 0
        THEN SummarizationResult("failed to generate summary", 0, 0)
        ELSE SummarizationResult("",
                 estimateTokens([k \in 1..Len(userAssistantMessages) |->
                                    userAssistantMessages[k].Bytes]),
                 estimateTokens(<<answer.Bytes>>))

\* SummarizeConversation
SummarizeConversation(msgs, answer) ==
    LET userAssistantMessages == filterUserAssistantMessages(msgs)
        originalTokens == estimateTokens(
            [k \in 1..Len(userAssistantMessages) |-> userAssistantMessages[k].Bytes])
        summaryTokens == estimateTokens(<<answer.Bytes>>)
    IN  IF Len(userAssistantMessages) < 2
        THEN SummarizationResult("conversation too short to summarize", 0, 0)
        ELSE IF answer.Kind = "error"
        THEN SummarizationResult("failed to generate summary", 0, 0)
        ELSE IF answer.Kind = "noChoices"
        THEN SummarizationResult("no response from summarization model", 0, 0)
        ELSE IF answer.Bytes = 0
        THEN SummarizationResult("empty summary returned", 0, 0)
        ELSE SummarizationResult("", originalTokens, summaryTokens)

\* CreateSummaryMessage: the texts the marker can hold for a result
CreateSummaryMessage(summaryBytes, result) ==
    { [Role |-> "assistant", Bytes |-> summaryBytes, Tagged |-> FALSE, Marker |-> TRUE,
       OriginalTokens |-> result.OriginalTokens,
       SummaryTokens |-> result.SummaryTokens,
       RatioTenths |-> tenths,
       TokensSaved |-> result.TokensSaved] :
      tenths \in FormatOneDecimal(result.CompressionRatio.Num,
                                  result.CompressionRatio.Den) }

\* the messages a session can hold after the system and developer prompts
SessionMessages ==
    { SessionMsg("user", 4, FALSE), SessionMsg("user", 38, FALSE),
      SessionMsg("user", 20, TRUE), SessionMsg("assistant", 16, FALSE),
      SessionMsg("tool", 50, FALSE) }

SessionHead == <<SessionMsg("system", 400, FALSE), SessionMsg("developer", 200, FALSE)>>

CompactInit ==
    /\ session \in {SessionHead \o tail : tail \in SeqsUpTo(SessionMessages, MaxSessionLen)}
    /\ summarization = NoSummarization /\ compactPhase = "idle"
    /\ ApproverIdle /\ SubAgentIdle /\ ExtIdle
    /\ scheduler = NewScheduler /\ lastOp = "none"
    /\ AgentIdle /\ HooksIdle /\ FilterIdle

compactOthers == <<agentVars, scheduler, lastOp, hookVars, filterVars, approverVars,
                   subAgentVars, extVars>>

\* case "compact" with fewer than four messages
CompactRefused ==
    /\ compactPhase = "idle"
    /\ Len(session) < 4
    /\ compactPhase' = "refused"
    /\ UNCHANGED <<session, summarization, compactOthers>>

\* case "compact" when SummarizeConversation returns an error
CompactFails ==
    /\ compactPhase = "idle"
    /\ Len(session) >= 4
    /\ \E answer \in GenerateAnswers :
         /\ SummarizeConversation(session, answer).Err # ""
         /\ summarization' = SummarizeConversation(session, answer)
    /\ compactPhase' = "failed"
    /\ UNCHANGED <<session, compactOthers>>

\* case "compact" when SummarizeConversation succeeds
CompactSucceeds ==
    /\ compactPhase = "idle"
    /\ Len(session) >= 4
    /\ \E answer \in GenerateAnswers :
         LET result == SummarizeConversation(session, answer)
         IN  /\ result.Err = ""
             /\ summarization' = result
             /\ \E summaryMessage \in CreateSummaryMessage(answer.Bytes, result) :
                  session' = SessionHead \o <<summaryMessage>>
    /\ compactPhase' = "compacted"
    /\ UNCHANGED compactOthers

CompactNext ==
    \/ CompactRefused
    \/ CompactFails
    \/ CompactSucceeds

CompactSpec == CompactInit /\ [][CompactNext]_vars

\* the ratio the marker prints is exactly original_tokens / summary_tokens
MarkerRatioExact(m) == m.RatioTenths * m.SummaryTokens = 10 * m.OriginalTokens

\* the ratio the marker prints is original_tokens / summary_tokens rounded
\* to one decimal
MarkerRatioRounded(m) ==
    LET d == m.RatioTenths * m.SummaryTokens - 10 * m.OriginalTokens
    IN  2 * d <= m.SummaryTokens /\ 2 * d >= 0 - m.SummaryTokens

ThreeMessages ==
    /\ Len(session) = 3
    /\ session[1].Role = "system" /\ session[2].Role = "developer"
    /\ session[3].Role = "assistant" /\ session[3].Marker
    /\ session[3].OriginalTokens = summarization.OriginalTokens
    /\ session[3].SummaryTokens = summarization.SummaryTokens

\* C20 as stated: after a successful compaction the session holds system,
\* developer and the summary marker, and the ratio printed in the marker
\* equals original_tokens / summary_tokens.
C20_CompactionAsStated ==
    compactPhase = "compacted" => (ThreeMessages /\ MarkerRatioExact(session[3]))

\* C20: after a successful compaction the session holds system, developer
\* and the summary marker, and the ratio printed in the marker is
\* original_tokens / summary_tokens rounded to one decimal.
C20_Compaction ==
    compactPhase = "compacted" => (ThreeMessages /\ MarkerRatioRounded(session[3]))

\* a compaction succeeded whose ratio is not a whole number of tenths
C20_Witness ==
    /\ compactPhase = "compacted"
    /\ (10 * summarization.OriginalTokens) % summarization.SummaryTokens # 0

----------------------------------------------------------------------------
\* Expansion of environment variables in configuration values

\* A configuration value is a plain text, $NAME or ${NAME}
ValueText(form, name) ==
    IF form = "dollar" THEN "$" \o name
    ELSE IF form = "braces" THEN "${" \o name \o "}"
    ELSE name

\* os.LookupEnv over an environment kept as a set of <<name, value>> pairs
LookupEnv(environ, name) ==
    IF \E pair \in environ : pair[1] = name
    THEN [Exists |-> TRUE, Val |-> (CHOOSE pair \in environ : pair[1] = name)[2]]
    ELSE [Exists |-> FALSE, Val |-> ""]

\* ExpandEnvVars: the text after a leading "$" is looked up as it stands, so
\* ${NAME} looks up "{NAME}"
ExpandEnvVars(form, name, environ) ==
    IF form \in {"dollar", "braces"}
    THEN LET envVar == IF form = "dollar" THEN name ELSE "{" \o name \o "}"
         IN  IF LookupEnv(environ, envVar).Exists
             THEN LookupEnv(environ, envVar).Val
             ELSE ValueText(form, name)
    ELSE ValueText(form, name)

\* os.ExpandEnv of a value that is one reference or a plain text
OsExpandEnv(form, name, environ) ==
    IF form \in {"dollar", "braces"} THEN LookupEnv(environ, name).Val
    ELSE ValueText(form, name)

\* the expansion each configuration field goes through
ExpandField(field, form, name, environ) ==
    IF field = "api_key" THEN ExpandEnvVars(form, name, environ)
    ELSE OsExpandEnv(form, name, environ)

EnvNames == {"API_KEY", "TOKEN"}

\* the process environments: each name unset, set to "" or set to a text
Environments ==
    {e \in SUBSET (EnvNames \X {"", "secret"}) :
        \A a \in e, b \in e : a[1] = b[1] => a = b}

ConfigValues ==
    {[Form |-> "literal", Name |-> "plain"]}
    \cup {[Form |-> f, Name |-> n] : f \in {"dollar", "braces"}, n \in EnvNames}

ConfigInit ==
    /\ \E field \in {"api_key", "base_url", "env", "headers"},
          value \in ConfigValues, environ \in Environments :
         expansion = [Field |-> field, Form |-> value.Form, Name |-> value.Name,
                      Environ |-> environ, Result |-> "", Done |-> FALSE]
    /\ expansionOthersIdle

\* ExpandProviderConfig, ResolvedEnv and ResolvedHeaders for the field
ExpandConfigField ==
    /\ ~expansion.Done
    /\ expansion' = [expansion EXCEPT
                        !.Result = ExpandField(expansion.Field, expansion.Form,
                                               expansion.Name, expansion.Environ),
                        !.Done = TRUE]
    /\ UNCHANGED expansionOthers

ConfigSpec == ConfigInit /\ [][ExpandConfigField]_vars

\* C21: a field of the form $VAR or ${VAR} is replaced by the value of VAR,
\* and by the empty string when VAR is not set.
C21_EnvExpansion ==
    (expansion.Done /\ expansion.Form \in {"dollar", "braces"}) =>
        expansion.Result = LookupEnv(expansion.Environ, expansion.Name).Val

----------------------------------------------------------------------------
\* Classification of hook results by exit code

\* the output of a hook result blocks, with the given reason
Blocks(output, reason) ==
    /\ output # NilOutput
    /\ BlockDecisionOf(output) = [Block |-> TRUE, Reason |-> reason]

\* the output of a hook result neither blocks nor approves
Harmless(output) ==
    \/ output = NilOutput
    \/ (~BlockDecisionOf(output).Block /\ ~ApproveDecisionOf(output).Approve)

ExitCodeClassification(exitZeroCase(_)) ==
    hookPhase # "idle" =>
        \A k \in 1..Len(hookResults) :
            LET result == hookResults[k]
                output == processHookResult(hookEvent, result)
            IN  /\ (~result.Error /\ result.ExitCode = 2) => Blocks(output, result.Stderr)
                /\ (~result.Error /\ result.ExitCode = 0 /\ exitZeroCase(result)) =>
                       (output # NilOutput /\ ~BlockDecisionOf(output).Block)
                /\ (result.Error \/ result.ExitCode \notin {0, 2}) => Harmless(output)

AnyStdout(result) == TRUE

NoJsonStdout(result) == result.Stdout.Kind # "json"

----------------------------------------------------------------------------
\* the hook of docs/hooks.md, example 4: exit code 0 and a JSON object that
\* holds only hookSpecificOutput with permissionDecision "allow"
AutoApproveExample == Ran(0, JsonStdout("absent", "", "", "", "allow", "safe file"), "")

\* C23: when the only PreToolUse hook is the one of example 4,
\* ShouldAutoApprove answers true and ShouldBlockToolExecution answers false.
C23_AllowAutoApproves ==
    (hookPhase = "decided" /\ hookEvent = PreToolUse
     /\ hookResults = <<AutoApproveExample>>) =>
        (approveResult.Approve /\ ~blockResult.Block)

----------------------------------------------------------------------------
\* InteractiveApprover.RequestApproval at its prompt, with the time that passes

\* ApprovalConfig.TimeoutSeconds of DefaultApprovalConfig
TimeoutSeconds == 60
\* seconds followed beyond the timeout
MaxOvertime == 2

WaitInit == PromptIdle /\ promptOthersIdle

\* RequestApproval prints the calls that need approval and the options, then
\* calls ia.scanner.Scan()
PromptUser ==
    /\ prompt.Phase = "idle"
    /\ \E n \in 1..MaxRequestCalls :
         prompt' = [Phase |-> "reading", Calls |-> n, Waited |-> 0, Answer |-> "none"]
    /\ UNCHANGED promptOthers

\* a second passes while Scan has not returned
SecondPasses ==
    /\ prompt.Phase = "reading"
    /\ prompt.Waited < TimeoutSeconds + MaxOvertime
    /\ prompt' = [prompt EXCEPT !.Waited = @ + 1]
    /\ UNCHANGED promptOthers

\* Scan returns: the user typed a line, or standard input ended
ScanReturns ==
    /\ prompt.Phase = "reading"
    /\ \E answer \in {"approved", "rejected", "failed to read user input"} :
         prompt' = [prompt EXCEPT !.Phase = "returned", !.Answer = answer]
    /\ UNCHANGED promptOthers

WaitNext ==
    \/ PromptUser
    \/ SecondPasses
    \/ ScanReturns

\* time passes; nothing obliges the user to type
WaitSpec == WaitInit /\ [][WaitNext]_vars /\ WF_vars(SecondPasses)

\* C24: an approval request is not left at its prompt beyond the timeout, and
\* an approval request that waits at its prompt returns.
C24_ApprovalCompletes ==
    /\ [](prompt.Phase = "reading" => prompt.Waited <= TimeoutSeconds)
    /\ (prompt.Phase = "reading") ~> (prompt.Phase = "returned")

----------------------------------------------------------------------------
\* ClientManager: the clients of the configured tool servers

\* configured servers that are neither disabled nor invalid
MaxServers == 2
ServerNames == 1..MaxServers

\* the zero value of ClientState
StateDisabled == "disabled"
StateStarting == "starting"
StateConnected == "connected"
StateError == "error"

\* ClientInfo; ConnectedAt 0 is the zero time, Client 0 is nil
ClientInfo(state, err, client, toolCount, connectedAt) ==
    [State |-> state, Error |-> err, Client |-> client, ToolCount |-> toolCount,
     ConnectedAt |-> connectedAt]

\* GetState: the recorded ClientInfo, or the zero ClientInfo
GetState(m, name) ==
    IF name \in DOMAIN m.states THEN m.states[name]
    ELSE ClientInfo(StateDisabled, "none", 0, 0, 0)

updateStateStamped(m, name, state, err, client, toolCount) ==
    [m EXCEPT !.states = Put(m.states, name, ClientInfo(state, err, client, toolCount, m.now)),
              !.now = @ + 1]

\* updateState: a fresh ClientInfo replaces the recorded one; time.Now() is
\* read for StateConnected only
updateState(m, name, state, err, client, toolCount) ==
    [m EXCEPT !.states = Put(m.states, name,
                  ClientInfo(state, err, client, toolCount,
                             IF state = StateConnected THEN m.now ELSE 0)),
              !.now = @ + 1]

ManagerInit == ManagerIdle /\ managerOthersIdle

\* LoadMCPTools starts one goroutine per server name; InitializeClient begins
\* with updateState(name, StateStarting, nil, nil, 0)
InitializeClientStarts(name) ==
    /\ name \notin DOMAIN manager.states
    /\ manager' = [updateState(manager, name, StateStarting, "none", 0, 0)
                       EXCEPT !.created = @ \cup {name}]
    /\ UNCHANGED managerOthers

\* CreateClient, client.Start and client.Initialize: the first failure records
\* StateError and returns; otherwise the client is stored
InitializeClientConnects(name) ==
    /\ name \in manager.created
    /\ \E failure \in {"none", "create", "start", "initialize"} :
         LET m == [manager EXCEPT !.created = @ \ {name}]
         IN  manager' =
               IF failure # "none"
               THEN updateState(m, name, StateError, failure, 0, 0)
               ELSE [m EXCEPT !.clients = Put(m.clients, name, name),
                              !.stored = @ \cup {name}]
    /\ UNCHANGED managerOthers

\* client.ListTools answers; with or without tools the state is StateConnected
InitializeClientListsTools(name) ==
    /\ name \in manager.stored
    /\ \E toolCount \in 0..1 :
         manager' = updateState([manager EXCEPT !.stored = @ \ {name}],
                                name, StateConnected, "none", name, toolCount)
    /\ UNCHANGED managerOthers

\* GetClient after m.clients.Load found a client: the check of the state
GetClient(m, name, client) ==
    IF GetState(m, name).State = StateError
    THEN [Name |-> name, Phase |-> "returned", Client |-> 0, Err |-> "error state"]
    ELSE [Name |-> name, Phase |-> "returned", Client |-> client, Err |-> "none"]

\* GetClient: m.clients.Load(name)
GetClientLoads(name) ==
    /\ manager.get.Phase # "loaded"
    /\ manager' = [manager EXCEPT !.get =
         IF name \in DOMAIN manager.clients
         THEN [Name |-> name, Phase |-> "loaded", Client |-> manager.clients[name],
               Err |-> "none"]
         ELSE [Name |-> name, Phase |-> "returned", Client |-> 0, Err |-> "not found"]]
    /\ UNCHANGED managerOthers

\* GetClient: m.states.Load(name) and the return
GetClientReturns ==
    /\ manager.get.Phase = "loaded"
    /\ manager' = [manager EXCEPT !.get =
                       GetClient(manager, manager.get.Name, manager.get.Client)]
    /\ UNCHANGED managerOthers

ManagerNext ==
    \/ \E name \in ServerNames : InitializeClientStarts(name)
    \/ \E name \in ServerNames : InitializeClientConnects(name)
    \/ \E name \in ServerNames : InitializeClientListsTools(name)
    \/ \E name \in ServerNames : GetClientLoads(name)
    \/ GetClientReturns

ManagerSpec == ManagerInit /\ [][ManagerNext]_vars

StateMoves == {<<StateDisabled, StateStarting>>, <<StateStarting, StateConnected>>,
               <<StateStarting, StateError>>}

\* the state of a name changes along Disabled -> Starting -> Connected | Error
\* only, and the step into Connected stamps connected_at with the current time
ClientStateStep ==
    \A name \in ServerNames :
        LET old == GetState(manager, name)
            new == GetState(manager', name)
        IN  /\ old.State # new.State => <<old.State, new.State>> \in StateMoves
            /\ (old.State # new.State /\ new.State = StateConnected)
                  => new.ConnectedAt = manager.now
            /\ old.State = new.State => new.ConnectedAt = old.ConnectedAt

\* connected_at is set for the connected names and no others, and a client
\* handed out by GetClient belongs to a name that is not in the error state
ClientStateSound ==
    /\ \A name \in ServerNames :
          (GetState(manager, name).ConnectedAt # 0)
              <=> (GetState(manager, name).State = StateConnected)
    /\ (manager.get.Phase = "returned" /\ manager.get.Client # 0)
          => GetState(manager, manager.get.Name).State # StateError

----------------------------------------------------------------------------
\* multi_edit: MultiEditTool.Execute on one file; text is a sequence of characters

MaxFileLen == 3
MaxEdits == 2

\* the old_string and new_string values of the edits
EditStrings == {<< >>, <<"a">>, <<"a", "b">>}

\* one element of the "edits" argument
Edit(old, new, all) == [Valid |-> TRUE, old_string |-> old, new_string |-> new, replace_all |-> all]
\* an element that is no object, or one without old_string or new_string
InvalidEdit == [Valid |-> FALSE, old_string |-> << >>, new_string |-> << >>, replace_all |-> FALSE]

EditChoices == {Edit(old, new, all) : old \in EditStrings, new \in EditStrings, all \in BOOLEAN}
               \cup {InvalidEdit}

MissingFile == [Exists |-> FALSE, Content |-> << >>]
File(content) == [Exists |-> TRUE, Content |-> content]
FileChoices == {MissingFile} \cup {File(c) : c \in SeqsUpTo({"a", "b"}, MaxFileLen)}

\* strings.Index, counted from 1; 0 when substr does not occur
Index(s, substr) ==
    LET found == {idx \in 1..(Len(s) + 1) : /\ idx + Len(substr) - 1 <= Len(s)
                                        /\ SubSeq(s, idx, idx + Len(substr) - 1) = substr}
    IN  IF found = {} THEN 0 ELSE CHOOSE idx \in found : \A j \in found : idx <= j

\* strings.Contains
Contains(s, substr) == Index(s, substr) # 0

\* strings.Count: non-overlapping occurrences, and Len(s) + 1 for the empty substr
RECURSIVE Count(_, _)
Count(s, substr) ==
    IF substr = << >> THEN Len(s) + 1
    ELSE LET idx == Index(s, substr)
         IN  IF idx = 0 THEN 0
             ELSE 1 + Count(SubSeq(s, idx + Len(substr), Len(s)), substr)

\* strings.Replace with an empty old, after the insertion at the start
RECURSIVE InsertAfterEach(_, _, _)
InsertAfterEach(s, new, n) ==
    IF n = 0 \/ s = << >> THEN s
    ELSE <<Head(s)>> \o new \o InsertAfterEach(Tail(s), new, n - 1)

\* strings.Replace(s, old, new, n) for n >= 0
RECURSIVE Replace(_, _, _, _)
Replace(s, old, new, n) ==
    IF old = new \/ n = 0 THEN s
    ELSE IF old = << >> THEN new \o InsertAfterEach(s, new, n - 1)
    ELSE LET idx == Index(s, old)
         IN  IF idx = 0 THEN s
             ELSE SubSeq(s, 1, idx - 1) \o new
                  \o Replace(SubSeq(s, idx + Len(old), Len(s)), old, new, n - 1)

\* strings.ReplaceAll
ReplaceAll(s, old, new) == Replace(s, old, new, Len(s) + 1)

\* the loop over the edits from index idx on: the content after the last edit,
\* or the error of the first edit that fails
RECURSIVE ApplyEdits(_, _, _, _)
ApplyEdits(edits, idx, fileContent, originalContent) ==
    IF idx > Len(edits) THEN [Err |-> "none", Content |-> fileContent]
    ELSE LET edit == edits[idx]
             occurrences == Count(fileContent, edit.old_string)
         IN  IF ~edit.Valid
             THEN [Err |-> "invalid edit", Content |-> fileContent]
             ELSE IF idx = 1 /\ edit.old_string = << >> /\ originalContent = << >>
             THEN ApplyEdits(edits, idx + 1, edit.new_string, originalContent)
             ELSE IF edit.old_string = edit.new_string
             THEN [Err |-> "identical", Content |-> fileContent]
             ELSE IF ~Contains(fileContent, edit.old_string)
             THEN [Err |-> "not found", Content |-> fileContent]
             ELSE IF ~edit.replace_all /\ occurrences > 1
             THEN [Err |-> "not unique", Content |-> fileContent]
             ELSE ApplyEdits(edits, idx + 1,
                      IF edit.replace_all
                      THEN ReplaceAll(fileContent, edit.old_string, edit.new_string)
                      ELSE Replace(fileContent, edit.old_string, edit.new_string, 1),
                      originalContent)

MultiEditExecuteEager(file, edits) ==
    IF edits = << >> THEN [Err |-> "empty edits", File |-> file]
    ELSE IF ~file.Exists /\ (~edits[1].Valid \/ edits[1].old_string # << >>)
    THEN [Err |-> "failed to read file", File |-> file]
    ELSE LET applied == ApplyEdits(edits, 1, file.Content, file.Content)
         IN  [Err |-> applied.Err, File |-> File(applied.Content)]

\* MultiEditTool.Execute: what it returns and the file it leaves
MultiEditExecute(file, edits) ==
    IF edits = << >> THEN [Err |-> "empty edits", File |-> file]
    ELSE IF ~file.Exists /\ (~edits[1].Valid \/ edits[1].old_string # << >>)
    THEN [Err |-> "failed to read file", File |-> file]
    ELSE LET applied == ApplyEdits(edits, 1, file.Content, file.Content)
         IN  IF applied.Err # "none" THEN [Err |-> applied.Err, File |-> file]
             ELSE IF applied.Content = file.Content /\ file.Content # << >>
             THEN [Err |-> "no changes made", File |-> file]
             ELSE [Err |-> "none", File |-> File(applied.Content)]

EditInit ==
    /\ \E file \in FileChoices :
         multiEdit = [Before |-> file, Edits |-> << >>, File |-> file,
                      Err |-> "none", Phase |-> "idle"]
    /\ multiEditOthersIdle

\* one multi_edit call
ExecuteMultiEdit ==
    /\ multiEdit.Phase = "idle"
    /\ \E edits \in SeqsUpTo(EditChoices, MaxEdits) :
         LET result == MultiEditExecute(multiEdit.Before, edits)
         IN  multiEdit' = [multiEdit EXCEPT !.Edits = edits, !.File = result.File,
                                            !.Err = result.Err, !.Phase = "done"]
    /\ UNCHANGED multiEditOthers

EditSpec == EditInit /\ [][ExecuteMultiEdit]_vars

\* one edit applied to a text
EditOnce(content, edit) ==
    IF edit.replace_all THEN ReplaceAll(content, edit.old_string, edit.new_string)
    ELSE Replace(content, edit.old_string, edit.new_string, 1)

\* the edits up to the k-th, each applied to the result of the one before
RECURSIVE EditsInOrder(_, _, _)
EditsInOrder(content, edits, k) ==
    IF k = 0 THEN content ELSE EditOnce(EditsInOrder(content, edits, k - 1), edits[k])

\* the k-th edit is invalid, or its old_string is missing or ambiguous in the
\* result of the edits before it
EditFails(content, edits, k) ==
    LET before == EditsInOrder(content, edits, k - 1)
    IN  \/ ~edits[k].Valid
        \/ ~Contains(before, edits[k].old_string)
        \/ ~edits[k].replace_all /\ Count(before, edits[k].old_string) > 1

\* some edit of the list fails before or at the first one that stops the call
SomeEditFails(content, edits) ==
    \E k \in 1..Len(edits) :
        /\ EditFails(content, edits, k)
        /\ \A j \in 1..(k - 1) : ~EditFails(content, edits, j)

\* C26: a multi_edit call in which an edit fails leaves the file as it was;
\* the file changes only when every edit succeeded, and then holds the edits
\* applied in order, each to the result of the one before.
C26_MultiEditAtomic ==
    multiEdit.Phase = "done" =>
        /\ SomeEditFails(multiEdit.Before.Content, multiEdit.Edits)
              => multiEdit.Err # "none"
        /\ multiEdit.Err # "none" => multiEdit.File = multiEdit.Before
        /\ multiEdit.File # multiEdit.Before =>
              /\ ~SomeEditFails(multiEdit.Before.Content, multiEdit.Edits)
              /\ multiEdit.File = File(EditsInOrder(multiEdit.Before.Content,
                                           multiEdit.Edits, Len(multiEdit.Edits)))

\* the second of two edits failed after the first had matched
C26_Witness ==
    /\ multiEdit.Phase = "done"
    /\ Len(multiEdit.Edits) = 2
    /\ multiEdit.Before.Exists
    /\ ~EditFails(multiEdit.Before.Content, multiEdit.Edits, 1)
    /\ EditsInOrder(multiEdit.Before.Content, multiEdit.Edits, 1) # multiEdit.Before.Content
    /\ EditFails(multiEdit.Before.Content, multiEdit.Edits, 2)
    /\ multiEdit.Err = "not found"

----------------------------------------------------------------------------
\* todo_write and todo_read on GlobalTodoStore

\* items written over all todo_write calls
MaxTodoItems == 3

TodoPending == "pending"
TodoInProgress == "in_progress"
TodoCompleted == "completed"

TodoItem(id, title, state, createdAt, updatedAt) ==
    [ID |-> id, Title |-> title, State |-> state, CreatedAt |-> createdAt,
     UpdatedAt |-> updatedAt]

\* the k-th identifier made by ulid.Make()
Ulid(k) == "ulid" \o ToString(k)

\* an element of the "items" argument as json.Unmarshal leaves it: the times
\* are zero, absent fields are empty
ArgItems(ids) ==
    {TodoItem(id, "title one", TodoPending, 0, 0) : id \in ids}
    \cup {TodoItem(id, "title two", TodoCompleted, 0, 0) : id \in ids}
    \cup {TodoItem("", "", TodoPending, 0, 0), TodoItem("", "title one", "", 0, 0)}

\* the ids a caller can name: none, one of its own making, those it has read
CallerIDs(store) == {"", "mine"} \cup DOMAIN store

RECURSIVE UpsertRestamping(_, _, _, _)
UpsertRestamping(store, made, items, now) ==
    IF items = << >> THEN [items |-> store, made |-> made]
    ELSE LET item == Head(items)
             id == IF item.ID = "" THEN Ulid(made + 1) ELSE item.ID
         IN  UpsertRestamping(Put(store, id, TodoItem(id, item.Title, item.State, now, now)),
                              IF item.ID = "" THEN made + 1 ELSE made, Tail(items), now)

\* TodoStore.Upsert with time.Now() = now, after `made` identifiers were made
RECURSIVE Upsert(_, _, _, _)
Upsert(store, made, items, now) ==
    IF items = << >> THEN [items |-> store, made |-> made]
    ELSE LET item == Head(items)
             id == IF item.ID = "" THEN Ulid(made + 1) ELSE item.ID
             createdAt == IF item.ID # "" /\ item.ID \in DOMAIN store
                          THEN store[item.ID].CreatedAt ELSE now
         IN  Upsert(Put(store, id, TodoItem(id, item.Title, item.State, createdAt, now)),
                    IF item.ID = "" THEN made + 1 ELSE made, Tail(items), now)

\* the validation loop of TodoWriteTool.Execute: the switch reads the copy of
\* the item made by range, so an empty state is refused
ValidateItems(items) ==
    IF items = << >> THEN "items array cannot be empty"
    ELSE IF \E k \in 1..Len(items) :
               /\ items[k].Title = ""
               /\ \A j \in 1..(k - 1) :
                     items[j].State \in {TodoPending, TodoInProgress, TodoCompleted}
         THEN "title cannot be empty"
    ELSE IF \E k \in 1..Len(items) :
               items[k].State \notin {TodoPending, TodoInProgress, TodoCompleted}
         THEN "invalid state"
    ELSE "none"

TodoInit == TodoIdle /\ todoOthersIdle

\* TodoWriteTool.Execute
TodoWrite ==
    /\ todo.written < MaxTodoItems
    /\ \E items \in SeqsUpTo(ArgItems(CallerIDs(todo.items)), MaxTodoItems - todo.written) :
         LET err == ValidateItems(items)
             stored == Upsert(todo.items, todo.made, items, todo.now)
             newCount == Cardinality({k \in 1..Len(items) : items[k].ID = ""})
         IN  todo' =
               IF err # "none"
               THEN [todo EXCEPT !.before = todo.items, !.call = items,
                                 !.written = @ + Len(items),
                                 !.reply = [Err |-> err, newCount |-> 0, updateCount |-> 0],
                                 !.phase = "written", !.read = << >>]
               ELSE [todo EXCEPT !.items = stored.items, !.made = stored.made,
                                 !.now = @ + 1, !.before = todo.items, !.call = items,
                                 !.written = @ + Len(items),
                                 !.reply = [Err |-> "none", newCount |-> newCount,
                                            updateCount |-> Len(items) - newCount],
                                 !.phase = "written", !.read = << >>]
    /\ UNCHANGED todoOthers

\* TodoReadTool.Execute: ReadAll, sorted by creation time, as JSON
TodoRead ==
    /\ todo.phase # "read"
    /\ \E todos \in [1..Cardinality(DOMAIN todo.items) -> {todo.items[id] : id \in DOMAIN todo.items}] :
         /\ \A j, k \in DOMAIN todos : j # k => todos[j].ID # todos[k].ID
         /\ \A j, k \in DOMAIN todos : j < k => todos[j].CreatedAt <= todos[k].CreatedAt
         /\ todo' = [todo EXCEPT !.phase = "read", !.read = todos]
    /\ UNCHANGED todoOthers

TodoNext == TodoWrite \/ TodoRead

TodoSpec == TodoInit /\ [][TodoNext]_vars

\* the positions of the last call whose id was in the store, and those with no id
UpdatingItems == {k \in 1..Len(todo.call) : todo.call[k].ID \in DOMAIN todo.before}
CreatingItems == {k \in 1..Len(todo.call) : todo.call[k].ID = ""}

\* the entries stored under identifiers made by the last call
MadeEntries == {id \in DOMAIN todo.items : id \notin DOMAIN todo.before /\ id # "mine"}

\* an item with an id of the store replaced the entry under that id and kept
\* its creation time
ExistingReplaced ==
    \A k \in UpdatingItems :
        LET id == todo.call[k].ID
            last == CHOOSE j \in UpdatingItems :
                       /\ todo.call[j].ID = id
                       /\ \A h \in UpdatingItems : todo.call[h].ID = id => h <= j
        IN  /\ id \in DOMAIN todo.items
            /\ todo.items[id].ID = id
            /\ todo.items[id].Title = todo.call[last].Title
            /\ todo.items[id].State = todo.call[last].State
            /\ todo.items[id].CreatedAt = todo.before[id].CreatedAt

\* a call of updates only is counted as updates and leaves the size as it was
UpdatesCounted ==
    /\ todo.reply.updateCount >= Cardinality(UpdatingItems)
    /\ UpdatingItems = 1..Len(todo.call) =>
          /\ todo.reply.updateCount = Len(todo.call)
          /\ todo.reply.newCount = 0
          /\ DOMAIN todo.items = DOMAIN todo.before

\* every item without id is stored under an identifier of its own that the
\* store did not hold
CreatedFresh ==
    /\ todo.reply.newCount = Cardinality(CreatingItems)
    /\ Cardinality(MadeEntries) = Cardinality(CreatingItems)
    /\ \A k \in CreatingItems :
          Cardinality({id \in MadeEntries : /\ todo.items[id].ID = id
                                            /\ todo.items[id].Title = todo.call[k].Title
                                            /\ todo.items[id].State = todo.call[k].State})
            = Cardinality({j \in CreatingItems : /\ todo.call[j].Title = todo.call[k].Title
                                                 /\ todo.call[j].State = todo.call[k].State})

\* todo_read returned the stored items, each once
ReadReturnsStore ==
    /\ {todo.read[k] : k \in DOMAIN todo.read} = {todo.items[id] : id \in DOMAIN todo.items}
    /\ Len(todo.read) = Cardinality(DOMAIN todo.items)

\* C27: todo_write is an upsert on the item id: an item whose id is in the
\* store replaces that entry, is counted as an update, leaves the size and
\* created_at as they were; an item without id is stored under a fresh unique
\* id; a todo_read that follows returns exactly the stored items.
C27_TodoUpsert ==
    /\ (todo.phase = "written" /\ todo.reply.Err = "none")
          => ExistingReplaced /\ UpdatesCounted /\ CreatedFresh
    /\ todo.phase = "read" => ReadReturnsStore

\* an entry written by an earlier call was replaced by a later call that also
\* created an item
C27_Witness ==
    /\ todo.phase = "written"
    /\ todo.reply.Err = "none"
    /\ UpdatingItems # {}
    /\ CreatingItems # {}
    /\ \E k \in UpdatingItems :
          /\ todo.before[todo.call[k].ID].Title # todo.items[todo.call[k].ID].Title
          /\ todo.items[todo.call[k].ID].CreatedAt < todo.items[todo.call[k].ID].UpdatedAt

----------------------------------------------------------------------------
\* C28: every scheduler entry in status Executed or Failed has executed_at,
\* and every entry in status Approved, Executed or Failed has approved_at.
C28_EntryTimesSet ==
    \A id \in DOMAIN scheduler :
        /\ scheduler[id].Status \in {StatusExecuted, StatusFailed}
              => scheduler[id].ExecutedAt
        /\ scheduler[id].Status \in {StatusApproved, StatusExecuted, StatusFailed}
              => scheduler[id].ApprovedAt

\* C29: the scheduler records every tool call of a turn: every executed call
\* has a scheduler entry in status Executed or Failed.
C29_ExecutedCallsRecorded ==
    \A k \in 1..Len(execLog) :
        /\ execLog[k].CallID \in DOMAIN scheduler
        /\ scheduler[execLog[k].CallID].Status \in {StatusExecuted, StatusFailed}

----------------------------------------------------------------------------
\* EventStream: the goroutine of Turn.run emits, the handler loop receives

\* events a turn emits beyond the capacity of the buffer
MaxOverflow == 2

StreamInit == EventStreamIdle /\ eventStreamOthersIdle

\* Turn.Run: go t.run(ctx), and the caller starts to range over Events()
TurnRunStarts ==
    /\ eventStream.pc = "idle"
    /\ eventStream' = [eventStream EXCEPT !.pc = "running", !.handler = "consuming"]
    /\ UNCHANGED eventStreamOthers

\* t.eventStream.Emit of the next event of the turn; events are named by
\* their place in the order of emission
ProducerEmits ==
    /\ eventStream.pc = "running"
    /\ eventStream.emitted < EventBufferSize + MaxOverflow
    /\ LET event == eventStream.emitted + 1
           sent == Emit(eventStream.events, event)
       IN  eventStream' = [eventStream EXCEPT !.emitted = event, !.events = sent,
                                    !.dropped = IF sent = eventStream.events
                                                THEN @ \cup {event} ELSE @]
    /\ UNCHANGED eventStreamOthers

\* Turn.run returns: the deferred t.eventStream.Close()
ProducerReturns ==
    /\ eventStream.pc = "running"
    /\ eventStream' = [eventStream EXCEPT !.pc = "returned", !.closed = @ + 1]
    /\ UNCHANGED eventStreamOthers

\* the handler loop receives the oldest buffered event
HandlerReceives ==
    /\ eventStream.handler = "consuming"
    /\ eventStream.events # << >>
    /\ eventStream' = [eventStream EXCEPT !.events = Tail(@),
                                !.received = Append(@, Head(eventStream.events))]
    /\ UNCHANGED eventStreamOthers

\* the handler loop ends: the channel is closed and drained, or a handler
\* returned an error and the loop was left
HandlerStops ==
    /\ eventStream.handler = "consuming"
    /\ eventStream' = [eventStream EXCEPT !.handler = "stopped"]
    /\ UNCHANGED eventStreamOthers

Producer == ProducerEmits \/ ProducerReturns

StreamNext ==
    \/ TurnRunStarts
    \/ ProducerEmits
    \/ ProducerReturns
    \/ HandlerReceives
    \/ HandlerStops

\* the goroutine of Turn.run is scheduled; nothing obliges the handler
StreamSpec == StreamInit /\ [][StreamNext]_vars /\ WF_vars(Producer)

\* the events emitted so far and not dropped, in the order of emission
NotDropped(event) == event \notin eventStream.dropped

KeptUpTo(n) == SelectSeq([k \in 1..n |-> k], NotDropped)

\* the buffer never exceeds its capacity of at least 64, the handler has
\* received and will receive the events not dropped, once and in order, and
\* the eventStream is closed once, by the producer that has returned
StreamSound ==
    /\ EventBufferSize >= 64
    /\ Len(eventStream.events) <= EventBufferSize
    /\ eventStream.received \o eventStream.events = KeptUpTo(eventStream.emitted)
    /\ eventStream.closed = (IF eventStream.pc = "returned" THEN 1 ELSE 0)
    /\ eventStream.pc = "running" /\ eventStream.emitted < EventBufferSize + MaxOverflow
          => ENABLED ProducerEmits

\* an emission is dropped only when the buffer is full, and nothing is emitted
\* after the close
StreamStep ==
    /\ eventStream'.dropped # eventStream.dropped => Len(eventStream.events) = EventBufferSize
    /\ eventStream.closed > 0 => /\ eventStream'.emitted = eventStream.emitted
                            /\ eventStream'.closed = eventStream.closed

\* C30: Emit never blocks the producer; with the buffer (capacity >= 64) full
\* the event is dropped; the handler receives the events not dropped, each
\* once and in the order produced; the eventStream is closed exactly once, after
\* the last emission; the producer goroutine terminates even if the handler
\* stops consuming.
C30_EventStream ==
    /\ []StreamSound
    /\ [][StreamStep]_vars
    /\ (eventStream.pc = "running") ~> (eventStream.pc = "returned" /\ eventStream.closed = 1)

\* the handler stopped with events left in the buffer, an event was dropped,
\* and the producer has returned
C30_Witness ==
    /\ eventStream.handler = "stopped"
    /\ eventStream.received # << >>
    /\ eventStream.events # << >>
    /\ eventStream.dropped # {}
    /\ eventStream.pc = "returned"

----------------------------------------------------------------------------
\* Manager.ExecuteHooks: one goroutine per matched hook, then wg.Wait()

LaunchInit == HookRunIdle /\ hookRunOthersIdle

StoreResultAppended(results, order, idx, result) ==
    [results EXCEPT ![Len(order) + 1] = result]

\* results[idx] = m.executeHook(ctx, h, input) in the goroutine of hook idx,
\* after the hooks of `order` have finished
StoreResult(results, order, idx, result) ==
    [results EXCEPT ![idx] = result]

\* the matched hooks are launched; Hooks[k] is what executeHook will return
\* for the k-th hook in configuration order, results holds zero values
LaunchHooks ==
    /\ hookRun.Phase = "idle"
    /\ \E event \in HookEvents, hooks \in SeqsUpTo(HookResultChoices, MaxHooks) :
         /\ hooks # << >>
         /\ hookRun' = [Phase |-> "waiting", Event |-> event, Hooks |-> hooks,
                        Results |-> [k \in 1..Len(hooks) |-> Ran(0, NoStdout, "")],
                        Order |-> << >>, Outputs |-> << >>]
    /\ UNCHANGED hookRunOthers

\* the command of hook idx has exited or was killed at its timeout: the
\* goroutine stores the result and calls wg.Done()
HookFinishes(idx) ==
    /\ hookRun.Phase = "waiting"
    /\ idx \in 1..Len(hookRun.Hooks)
    /\ idx \notin Range(hookRun.Order)
    /\ hookRun' = [hookRun EXCEPT
                     !.Results = StoreResult(@, hookRun.Order, idx, hookRun.Hooks[idx]),
                     !.Order = Append(@, idx)]
    /\ UNCHANGED hookRunOthers

\* wg.Wait() returns, the results are processed in index order
ExecuteHooksReturns ==
    /\ hookRun.Phase = "waiting"
    /\ Len(hookRun.Order) = Len(hookRun.Hooks)
    /\ hookRun' = [hookRun EXCEPT !.Phase = "returned",
                                  !.Outputs = CollectOutputs(hookRun.Event, hookRun.Results)]
    /\ UNCHANGED hookRunOthers

LaunchNext ==
    \/ LaunchHooks
    \/ \E idx \in 1..MaxHooks : HookFinishes(idx)
    \/ ExecuteHooksReturns

LaunchSpec == LaunchInit /\ [][LaunchNext]_vars

\* C31: ExecuteHooks returns only after every launched hook has finished or
\* was stopped at its timeout, and the outputs it returns are those of the
\* hooks in configuration order whatever the order of completion, so the
\* block and auto-approve decisions do not depend on the scheduling.
C31_HooksInConfigOrder ==
    hookRun.Phase = "returned" =>
        /\ Range(hookRun.Order) = 1..Len(hookRun.Hooks)
        /\ hookRun.Outputs = CollectOutputs(hookRun.Event, hookRun.Hooks)
        /\ ShouldBlockToolExecution(hookRun.Outputs)
             = ShouldBlockToolExecution(CollectOutputs(hookRun.Event, hookRun.Hooks))
        /\ ShouldAutoApprove(hookRun.Outputs)
             = ShouldAutoApprove(CollectOutputs(hookRun.Event, hookRun.Hooks))

\* two hooks with different outputs, the second finished first
C31_Witness ==
    /\ hookRun.Phase = "returned"
    /\ hookRun.Order = <<2, 1>>
    /\ Len(hookRun.Outputs) = 2
    /\ hookRun.Outputs[1] # hookRun.Outputs[2]
    /\ ShouldBlockToolExecution(hookRun.Outputs)
          # ShouldBlockToolExecution(<<hookRun.Outputs[2], hookRun.Outputs[1]>>)

----------------------------------------------------------------------------
\* ToolCallScheduler with an observer: the getters hand out pointers to the
\* entries, which the handler goes on writing field by field under s.mu

NoOp == [Name |-> "none", ID |-> "", Step |-> 0, Result |-> FALSE, Err |-> FALSE]
NoView == [ID |-> "", Read |-> {}, Status |-> "", ApprovedAt |-> FALSE,
           ExecutedAt |-> FALSE, Result |-> FALSE]
EntryFields == {"Status", "ApprovedAt", "ExecutedAt", "Result"}

ObserverInit == ObserverIdle /\ observerOthersIdle

\* handleToolCallConfirmation: ScheduleToolCalls stores a new entry
HandlerSchedules(id) ==
    /\ observer.op = NoOp
    /\ id \notin DOMAIN observer.calls
    /\ observer' = [observer EXCEPT !.calls = ScheduleToolCalls(@, <<id>>)]
    /\ UNCHANGED observerOthers

\* the handler takes s.mu for ApproveCalls, RejectCalls or MarkExecuted
HandlerLocks(id) ==
    /\ observer.op = NoOp
    /\ id \in DOMAIN observer.calls
    /\ \/ /\ observer.calls[id].Status = StatusPending
          /\ \E name \in {"ApproveCalls", "RejectCalls"} :
               observer' = [observer EXCEPT !.op = [NoOp EXCEPT !.Name = name, !.ID = id,
                                                                !.Step = 1]]
       \/ /\ observer.calls[id].Status = StatusApproved
          /\ \E err \in BOOLEAN :
               observer' = [observer EXCEPT !.op =
                   [Name |-> "MarkExecuted", ID |-> id, Step |-> 1, Result |-> ~err,
                    Err |-> err]]
    /\ UNCHANGED observerOthers

\* the next assignment of the operation that holds s.mu; after the last one
\* the lock is released
HandlerWrites ==
    /\ observer.op # NoOp
    /\ LET op == observer.op
           id == op.ID
           next == [op EXCEPT !.Step = @ + 1]
       IN  observer' =
             IF op.Name = "ApproveCalls"
             THEN IF op.Step = 1
                  THEN [observer EXCEPT !.calls[id].Status = StatusApproved, !.op = next]
                  ELSE [observer EXCEPT !.calls[id].ApprovedAt = TRUE, !.op = NoOp]
             ELSE IF op.Name = "RejectCalls"
             THEN [observer EXCEPT !.calls[id].Status = StatusRejected, !.op = NoOp]
             ELSE IF op.Step = 1
             THEN [observer EXCEPT !.calls[id].ExecutedAt = TRUE, !.op = next]
             ELSE IF op.Step = 2
             THEN [observer EXCEPT !.calls[id].Result = op.Result, !.op = next]
             ELSE IF op.Step = 3
             THEN [observer EXCEPT !.calls[id].Error = op.Err, !.op = next]
             ELSE [observer EXCEPT !.calls[id].Status =
                                       IF op.Err THEN StatusFailed ELSE StatusExecuted,
                                   !.op = NoOp]
    /\ UNCHANGED observerOthers

\* GetPendingCalls or GetApprovedCalls under s.mu.RLock(): pointers to the
\* entries of that status
ObserverGets ==
    /\ observer.op = NoOp
    /\ \E status \in {StatusPending, StatusApproved} :
         observer' = [observer EXCEPT
                        !.held = {id \in DOMAIN observer.calls :
                                      observer.calls[id].Status = status},
                        !.view = NoView]
    /\ UNCHANGED observerOthers

\* the observer reads one field of an entry it holds, without s.mu
ObserverReads(id, field) ==
    /\ id \in observer.held
    /\ observer.view.ID \in {"", id}
    /\ field \notin observer.view.Read
    /\ observer' = [observer EXCEPT
                      !.view = [@ EXCEPT !.ID = id, !.Read = @ \cup {field},
                                         ![field] = observer.calls[id][field]]]
    /\ UNCHANGED observerOthers

ObserverNext ==
    \/ \E id \in SchedIDs : HandlerSchedules(id)
    \/ \E id \in SchedIDs : HandlerLocks(id)
    \/ HandlerWrites
    \/ ObserverGets
    \/ \E id \in SchedIDs, field \in EntryFields : ObserverReads(id, field)

ObserverSpec == ObserverInit /\ [][ObserverNext]_vars

\* C32: an entry read by an observer is never Approved without approved_at,
\* nor Executed without result or executed_at.
C32_ObserverSeesConsistentEntry ==
    observer.view.Read = EntryFields =>
        /\ observer.view.Status = StatusApproved => observer.view.ApprovedAt
        /\ observer.view.Status = StatusExecuted
              => observer.view.Result /\ observer.view.ExecutedAt

----------------------------------------------------------------------------
\* LoadMCPTools: one goroutine per enabled and valid server, the goroutine that
\* closes the tool channel, and the collecting loop

\* capacity of toolsChan
ToolsChanSize == 100

\* the number of tools a server offers: the first server may offer more than
\* the channel holds
ToolCounts(name) == IF name = 1 THEN {0, 1, ToolsChanSize + 1} ELSE {0, 1}

\* the k-th tool of a server
ServerTool(name, k) == <<name, k>>

CollectLatest(allTools, tool) == <<tool>>

\* allTools = append(allTools, tool)
Collect(allTools, tool) == Append(allTools, tool)

\* the servers of the configuration: disabled and invalid ones get no goroutine
LoadInit ==
    /\ \E kinds \in [ServerNames -> {"disabled", "invalid", "enabled"}],
          counts \in [ServerNames -> {0, 1, ToolsChanSize + 1}] :
         /\ \A name \in ServerNames :
               counts[name] \in (IF kinds[name] = "enabled" THEN ToolCounts(name) ELSE {0})
         /\ counts[1] > ToolsChanSize => \A name \in ServerNames \ {1} : counts[name] = 0
         /\ loader = [pc |-> [name \in ServerNames |->
                                 IF kinds[name] = "enabled" THEN "initialize" ELSE "skipped"],
                      tools |-> counts,
                      left |-> [name \in ServerNames |-> 0],
                      state |-> [name \in ServerNames |-> StateDisabled],
                      listed |-> [name \in ServerNames |-> FALSE],
                      chan |-> << >>, closed |-> FALSE, allTools |-> << >>,
                      returned |-> FALSE]
    /\ loaderOthersIdle

\* manager.InitializeClient returns in the goroutine of the server
WorkerInitializes(name) ==
    /\ loader.pc[name] = "initialize"
    /\ \/ loader' = [loader EXCEPT !.state[name] = StateError, !.pc[name] = "done"]
       \/ loader' = [loader EXCEPT !.state[name] = StateConnected, !.pc[name] = "getTools"]
    /\ UNCHANGED loaderOthers

\* manager.GetTools returns: the tools of the server, or an error
WorkerGetsTools(name) ==
    /\ loader.pc[name] = "getTools"
    /\ \/ loader' = [loader EXCEPT !.pc[name] = "done"]
       \/ loader' = [loader EXCEPT !.listed[name] = TRUE,
                                   !.left[name] = loader.tools[name],
                                   !.pc[name] = IF loader.tools[name] = 0 THEN "done"
                                                ELSE "send"]
    /\ UNCHANGED loaderOthers

\* toolsChan <- toolAdapter, which waits while the channel is full
WorkerSends(name) ==
    /\ loader.pc[name] = "send"
    /\ Len(loader.chan) < ToolsChanSize
    /\ loader' = [loader EXCEPT
                    !.chan = Append(@, ServerTool(name, loader.tools[name]
                                                        - loader.left[name] + 1)),
                    !.left[name] = @ - 1,
                    !.pc[name] = IF loader.left[name] = 1 THEN "done" ELSE "send"]
    /\ UNCHANGED loaderOthers

\* wg.Wait() returns in the closing goroutine: close(toolsChan)
CloserCloses ==
    /\ ~loader.closed
    /\ \A name \in ServerNames : loader.pc[name] \in {"skipped", "done"}
    /\ loader' = [loader EXCEPT !.closed = TRUE]
    /\ UNCHANGED loaderOthers

\* for tool := range toolsChan
CollectorReceives ==
    /\ loader.chan # << >>
    /\ loader' = [loader EXCEPT !.chan = Tail(@),
                                !.allTools = Collect(@, Head(loader.chan))]
    /\ UNCHANGED loaderOthers

\* the channel is closed and empty: LoadMCPTools returns allTools
CollectorReturns ==
    /\ ~loader.returned
    /\ loader.closed /\ loader.chan = << >>
    /\ loader' = [loader EXCEPT !.returned = TRUE]
    /\ UNCHANGED loaderOthers

LoadNext ==
    \/ \E name \in ServerNames : WorkerInitializes(name)
    \/ \E name \in ServerNames : WorkerGetsTools(name)
    \/ \E name \in ServerNames : WorkerSends(name)
    \/ CloserCloses
    \/ CollectorReceives
    \/ CollectorReturns

\* every goroutine is scheduled and every call to a server returns
LoadSpec == LoadInit /\ [][LoadNext]_vars /\ WF_vars(LoadNext)

\* the tools of the servers of a set
ToolsOf(names) == {ServerTool(name, k) : name \in names, k \in 1..(ToolsChanSize + 1)}

ConnectedServers == {name \in ServerNames : loader.state[name] = StateConnected}
ListedServers == {name \in ConnectedServers : loader.listed[name]}

\* what LoadMCPTools returned: the tools of the servers of a set, each once
ReturnedToolsOf(names) ==
    /\ Range(loader.allTools)
         = {tool \in ToolsOf(names) : tool[2] <= loader.tools[tool[1]]}
    /\ \A j, k \in 1..Len(loader.allTools) :
          j # k => loader.allTools[j] # loader.allTools[k]

\* C33 as stated: the tools returned are exactly those of the servers that
\* reached Connected.
C33_ToolsOfConnectedServers ==
    loader.returned => ReturnedToolsOf(ConnectedServers)

\* C33: LoadMCPTools returns once every goroutine has returned, the channel
\* never holds more than its capacity, and the tools returned are exactly
\* those of the servers that reached Connected and answered GetTools; the
\* failure of a server removes no tool of another.
C33_LoadTerminates ==
    /\ <>loader.returned
    /\ [](Len(loader.chan) <= ToolsChanSize)
    /\ [](loader.returned =>
            /\ \A name \in ServerNames : loader.pc[name] \in {"skipped", "done"}
            /\ ReturnedToolsOf(ListedServers))

\* a server with more tools than the channel holds was loaded while another
\* server failed
C33_Witness ==
    /\ loader.returned
    /\ Len(loader.allTools) > ToolsChanSize
    /\ \E name \in ServerNames : loader.state[name] = StateError

----------------------------------------------------------------------------
\* ClientManager.CloseAll beside InitializeClient calls for any name

\* calls of CreateClient
MaxClients == 3

CloseInit == ShutdownIdle /\ shutdownOthersIdle

\* InitializeClient is called: updateState(name, StateStarting, nil, nil, 0)
CloseSpecInitializeStarts(name) ==
    /\ shutdown.closeAll # "returned"
    /\ shutdown.made + Cardinality(shutdown.flights) < MaxClients
    /\ \A f \in shutdown.flights : f.Name # name
    /\ shutdown' = [updateState(shutdown, name, StateStarting, "none", 0, 0)
                       EXCEPT !.flights = @ \cup {[Name |-> name, Client |-> 0]}]
    /\ UNCHANGED shutdownOthers

\* CreateClient, client.Start and client.Initialize; a client that fails to
\* start or to initialize is closed; otherwise m.clients.Store(name, client)
CloseSpecInitializeConnects(f) ==
    /\ f \in shutdown.flights /\ f.Client = 0
    /\ \E failure \in {"none", "create", "start", "initialize"} :
         LET client == shutdown.made + 1
             m == [shutdown EXCEPT !.flights = @ \ {f}]
         IN  shutdown' =
               IF failure = "create"
               THEN [updateState(m, f.Name, StateError, failure, 0, 0)
                        EXCEPT !.made = client]
               ELSE IF failure # "none"
               THEN [updateState(m, f.Name, StateError, failure, 0, 0)
                        EXCEPT !.made = client, !.opened = @ \cup {client},
                               !.closedClients = @ \cup {client}]
               ELSE [m EXCEPT !.made = client, !.opened = @ \cup {client},
                              !.clients = Put(m.clients, f.Name, client),
                              !.flights = @ \cup {[Name |-> f.Name, Client |-> client]}]
    /\ UNCHANGED shutdownOthers

\* client.ListTools answers: updateState(name, StateConnected, ...)
CloseSpecInitializeReturns(f) ==
    /\ f \in shutdown.flights /\ f.Client # 0
    /\ shutdown' = updateState([shutdown EXCEPT !.flights = @ \ {f}],
                               f.Name, StateConnected, "none", f.Client, 0)
    /\ UNCHANGED shutdownOthers

\* CloseAll: m.clients.Range closes the clients that are stored
CloseAllCloses ==
    /\ shutdown.closeAll = "idle"
    /\ shutdown' = [shutdown EXCEPT
                      !.closedClients = @ \cup {shutdown.clients[name] :
                                                   name \in DOMAIN shutdown.clients},
                      !.closeAll = "closed"]
    /\ UNCHANGED shutdownOthers

\* CloseAll: both maps are replaced by empty ones, and CloseAll returns
CloseAllReturns ==
    /\ shutdown.closeAll = "closed"
    /\ shutdown' = [shutdown EXCEPT !.clients = << >>, !.states = << >>,
                                    !.closeAll = "returned"]
    /\ UNCHANGED shutdownOthers

CloseNext ==
    \/ \E name \in ServerNames : CloseSpecInitializeStarts(name)
    \/ \E f \in shutdown.flights : CloseSpecInitializeConnects(f)
    \/ \E f \in shutdown.flights : CloseSpecInitializeReturns(f)
    \/ CloseAllCloses
    \/ CloseAllReturns

CloseSpec == CloseInit /\ [][CloseNext]_vars

\* C34: after CloseAll has returned every client that InitializeClient made
\* has been closed, and GetClient returns an error for every server name.
C34_CloseAllClosesEveryClient ==
    shutdown.closeAll = "returned" =>
        /\ shutdown.opened \subseteq shutdown.closedClients
        /\ \A name \in ServerNames :
              \/ name \notin DOMAIN shutdown.clients
              \/ GetClient(shutdown, name, shutdown.clients[name]).Err # "none"

----------------------------------------------------------------------------
\* C35: when ExecuteWithHistory returns because a turn failed, the returned
\* conversation holds a tool response for every tool call that was executed.
C35_FailedTurnKeepsResponses ==
    returnedErr =>
        \A k \in 1..Len(execLog) :
            \E j \in 1..Len(conversation) :
                /\ conversation[j].Role = "tool"
                /\ conversation[j].ToolCallID = execLog[k].CallID

\* one compact command: with fewer than two user or assistant messages left by
\* the filter it fails, an error of the summarization fails it, and a failed
\* or refused command leaves the session as it was
CompactStep ==
    (compactPhase = "idle" /\ compactPhase' # "idle") =>
        /\ Len(filterUserAssistantMessages(session)) < 2
              => compactPhase' \in {"refused", "failed"}
        /\ summarization'.Err # "" => compactPhase' = "failed"
        /\ compactPhase' \in {"refused", "failed"} => session' = session
        /\ compactPhase' = "compacted" => session' # session

\* C36: compaction fails when fewer than two user/assistant messages remain
\* after filtering, and when the summarising call fails or returns an empty
\* summary; every failure leaves the session conversation as it was.
C36_FailedCompactionKeepsSession == [][CompactStep]_vars

\* a session of four messages or more was refused by SummarizeConversation
\* because the filter left fewer than two
C36_Witness ==
    /\ compactPhase = "failed"
    /\ summarization.Err = "conversation too short to summarize"
    /\ Len(session) >= 4

----------------------------------------------------------------------------
\* The automatic lists of the interactive approver

\* InteractiveApprover.RequestApproval reaches the prompt unless every call
\* is automatically approved and none was automatically rejected
PromptsUser(request, autoApprove, autoReject) ==
    LET rejected        == IDsOf(CallsNamed(request, autoReject))
        allAutoApproved == \A k \in 1..Len(request) :
                               request[k].Name \in autoReject
                               \/ request[k].Name \in autoApprove
    IN  ~(allAutoApproved /\ rejected = << >>)

\* the calls of the request left after the automatic rejections
RemainingCalls == CallsNotNamed(approvalRequest, approverSetup.AutoReject)

\* C37: the interactive approver rejects every call whose tool name is in
\* the auto-reject list without asking; when every remaining call has its
\* tool name in the auto-approve list it approves all of them without
\* prompting; the user is prompted only when some remaining call is in
\* neither list.
C37_AutoListsDecide ==
    (approverKind = "interactive" /\ ~approvalResponse.Err) =>
        LET prompted == PromptsUser(approvalRequest, approverSetup.AutoApprove,
                                    approverSetup.AutoReject)
            allListed == \A k \in 1..Len(RemainingCalls) :
                             RemainingCalls[k].Name \in approverSetup.AutoApprove
        IN  /\ Range(IDsOf(CallsNamed(approvalRequest, approverSetup.AutoReject)))
                   \subseteq Range(approvalResponse.RejectedIDs)
            /\ allListed =>
                   /\ ~prompted
                   /\ Range(IDsOf(RemainingCalls))
                          \subseteq Range(approvalResponse.ApprovedIDs)
            /\ prompted => ~allListed

----------------------------------------------------------------------------
\* agent_tool: the parent's turn, AgentTool.Execute and the sub-agent's run

MaxParentCalls == 2
SubAgentIDs    == {"SA-0001", "SA-0002"}

\* agent_type as the LLM may give it; the empty string is an absent argument
RequestedAgentTypes == AgentTypes \cup {"", "custom"}

ChatMessage(role, content, ref, turn) ==
    [Role |-> role, Content |-> content, Ref |-> ref, Turn |-> turn]

\* maxSteps the factory of CreateAgentTool configures
FactoryMaxSteps(agentType) ==
    CASE agentType = "searcher" -> 15
      [] agentType = "analyzer" -> 20
      [] agentType = "executor" -> 5
      [] OTHER -> 10

\* the conversation AgentTool.Execute hands to the sub-agent
AgentToolConversation(agentType, userPrompt, subAgentID) ==
    << ChatMessage("system", "getSystemPromptForAgentType", agentType, 0),
       ChatMessage("user", "prompt", userPrompt, 0),
       ChatMessage("system", "[SUB-AGENT-CONTEXT]", subAgentID, 0) >>

\* agentInterfaceAdapter.ExecuteWithHistory: its own system and developer
\* prompts, then the messages handed in except those of role system
AdapterConversation(conv) ==
    << ChatMessage("system", "GetSystemPrompt", "", 0),
       ChatMessage("developer", "GetDeveloperPrompt", "", 0) >>
    \o SelectSeq(conv, LAMBDA m : m.Role # "system")

ParentCallChoices ==
    UNION { [1..n -> {[Name |-> "read_file", AgentType |-> "", Prompt |-> ""]}
                     \cup {[Name |-> "agent_tool", AgentType |-> t, Prompt |-> "task"] :
                              t \in RequestedAgentTypes}]
            : n \in 1..MaxParentCalls }


DelegateInit == DelegateIdle /\ delegateOthersIdle

\* HandleTurn of the parent has its approved calls and starts executing them
\* in order
ParentTurnStarts ==
    /\ delegate.Phase = "idle"
    /\ \E calls \in ParentCallChoices :
         delegate' = [delegate EXCEPT !.Phase = "parent", !.Calls = calls, !.Next = 1]
    /\ UNCHANGED delegateOthers

\* the parent executes a call of another tool and appends its tool message
ParentExecutes ==
    /\ delegate.Phase = "parent"
    /\ delegate.Next <= Len(delegate.Calls)
    /\ delegate.Calls[delegate.Next].Name # "agent_tool"
    /\ delegate' = [delegate EXCEPT
           !.ParentLog = Append(@, [Name |-> delegate.Calls[delegate.Next].Name,
                                    Call |-> delegate.Next]),
           !.ParentConv = Append(@, ChatMessage("tool", "result", ProviderID(delegate.Next), 0)),
           !.Next = @ + 1]
    /\ UNCHANGED delegateOthers

\* AgentTool.Execute up to the call of subAgent.ExecuteWithHistory, and the
\* adapter's conversion of the conversation
AgentToolExecuteStarts ==
    /\ delegate.Phase = "parent"
    /\ delegate.Next <= Len(delegate.Calls)
    /\ delegate.Calls[delegate.Next].Name = "agent_tool"
    /\ \E subAgentID \in SubAgentIDs :
         LET call      == delegate.Calls[delegate.Next]
             agentType == IF call.AgentType = "" THEN "general-purpose"
                          ELSE call.AgentType
         IN  delegate' = [delegate EXCEPT
                 !.Phase = "child",
                 !.AgentType = agentType,
                 !.SubAgentID = subAgentID,
                 !.MaxSteps = FactoryMaxSteps(agentType),
                 !.Tools = NewAgentTools(FactoryTools(agentType)),
                 !.Step = 0,
                 !.Finished = FALSE,
                 !.Depth = 1,
                 !.FirstCall = << >>,
                 !.ChildConv = AdapterConversation(
                                   AgentToolConversation(agentType, call.Prompt,
                                                         subAgentID))]
    /\ UNCHANGED delegateOthers

\* one iteration of the sub-agent's ExecuteWithHistory loop: the LLM is
\* called on the conversation and answers with a text, which ends the run,
\* or with a call of the named tool; a call of agent_tool that the registry
\* holds would start a sub-agent of the sub-agent
SubAgentTurn ==
    /\ delegate.Phase = "child"
    /\ ~delegate.Finished
    /\ delegate.Step < delegate.MaxSteps
    /\ \E answer \in {"text", "read_file", "agent_tool"} :
         delegate' = [delegate EXCEPT
             !.FirstCall = IF delegate.Step = 0 THEN delegate.ChildConv ELSE @,
             !.Step = @ + 1,
             !.Finished = (answer = "text"),
             !.Depth = IF answer = "agent_tool" /\ "agent_tool" \in delegate.Tools
                       THEN 2 ELSE @,
             !.ChildConv =
                 IF answer = "text"
                 THEN Append(@, ChatMessage("assistant", "text", delegate.SubAgentID,
                                    delegate.Step + 1))
                 ELSE @ \o << ChatMessage("assistant", "tool calls", delegate.SubAgentID,
                                  delegate.Step + 1),
                              ChatMessage("tool", "result", delegate.SubAgentID,
                                  delegate.Step + 1) >>]
    /\ UNCHANGED delegateOthers

\* the sub-agent's run is over; AgentTool.Execute returns its ToolResult and
\* the parent appends the tool message of the agent_tool call
AgentToolExecuteReturns ==
    /\ delegate.Phase = "child"
    /\ delegate.Finished \/ ~(delegate.Step < delegate.MaxSteps)
    /\ delegate' = [delegate EXCEPT
           !.Phase = "parent",
           !.ParentLog = Append(@, [Name |-> "agent_tool", Call |-> delegate.Next]),
           !.ParentConv = Append(@, ChatMessage("tool", "Sub-agent summary",
                                        ProviderID(delegate.Next), 0)),
           !.Next = @ + 1]
    /\ UNCHANGED delegateOthers

\* every call of the turn has its tool message
ParentTurnEnds ==
    /\ delegate.Phase = "parent"
    /\ delegate.Next > Len(delegate.Calls)
    /\ delegate' = [delegate EXCEPT !.Phase = "done"]
    /\ UNCHANGED delegateOthers

DelegateNext ==
    \/ ParentTurnStarts
    \/ ParentExecutes
    \/ AgentToolExecuteStarts
    \/ SubAgentTurn
    \/ AgentToolExecuteReturns
    \/ ParentTurnEnds

\* the LLM answers every call of the sub-agent
DelegateSpec == DelegateInit /\ [][DelegateNext]_vars /\ WF_vars(DelegateNext)

HasMessage(conv, role, content, ref) ==
    \E j \in 1..Len(conv) :
        conv[j].Role = role /\ conv[j].Content = content /\ conv[j].Ref = ref

\* the tool messages the parent's conversation holds for the call at position k
ToolMessagesOf(k) ==
    SelectSeq(delegate.ParentConv,
              LAMBDA m : m.Role = "tool" /\ m.Ref = ProviderID(k))

\* C38: the conversation of a sub-agent's first LLM call contains the system
\* prompt of its agent type, the prompt given to agent_tool and the context
\* marker with the sub-agent id; the parent's conversation receives only the
\* one summary tool message of the agent_tool call and none of the
\* sub-agent's messages.
C38_SubAgentFirstCall ==
    /\ delegate.FirstCall # << >> =>
          /\ HasMessage(delegate.FirstCall, "system", "getSystemPromptForAgentType",
                        delegate.AgentType)
          /\ HasMessage(delegate.FirstCall, "user", "prompt", "task")
          /\ HasMessage(delegate.FirstCall, "system", "[SUB-AGENT-CONTEXT]",
                        delegate.SubAgentID)
    /\ \A k \in 1..Len(delegate.ParentLog) :
          delegate.ParentLog[k].Name = "agent_tool" =>
              ToolMessagesOf(delegate.ParentLog[k].Call)
                  = << ChatMessage("tool", "Sub-agent summary",
                           ProviderID(delegate.ParentLog[k].Call), 0) >>
    /\ \A j \in 1..Len(delegate.ParentConv) :
          delegate.ParentConv[j] \notin Range(delegate.ChildConv)

\* the step limits as the types are documented
DocumentedMaxSteps(agentType) ==
    CASE agentType = "searcher" -> 15
      [] agentType = "analyzer" -> 20
      [] agentType = "executor" -> 5
      [] OTHER -> 10

SubAgentBounded ==
    delegate.Phase \in {"child", "parent", "done"} /\ delegate.AgentType # "none" =>
        /\ "agent_tool" \notin delegate.Tools
        /\ delegate.Depth <= 1
        /\ delegate.Step <= DocumentedMaxSteps(delegate.AgentType)

\* while the sub-agent runs the parent executes nothing
ParentWaits ==
    delegate.Phase = "child" /\ delegate'.Phase = "child" =>
        /\ delegate'.ParentLog = delegate.ParentLog
        /\ delegate'.ParentConv = delegate.ParentConv

\* C40: the registry of a sub-agent never contains agent_tool, so the
\* nesting depth is at most one; every agent_tool call returns after at most
\* the sub-agent's maxSteps turns (searcher 15, analyzer 20, executor 5,
\* otherwise 10), and meanwhile the parent executes no other tool.
C40_SubAgentReturns ==
    /\ []SubAgentBounded
    /\ [][ParentWaits]_vars
    /\ (delegate.Phase = "child") ~> (delegate.Phase = "parent")

\* an analyzer used all of its 20 turns and agent_tool has returned
C40_Witness ==
    /\ delegate.Phase = "parent"
    /\ delegate.AgentType = "analyzer"
    /\ delegate.Step = 20
    /\ \E k \in 1..Len(delegate.ParentLog) : delegate.ParentLog[k].Name = "agent_tool"

----------------------------------------------------------------------------
\* C39: for an edit call on a file that does not exist the turn emits the
\* tool-call request but no confirmation event, no approval is requested,
\* and the call fails at execute time, so that an error tool message is
\* still produced for its call id (the run does not stop in the handler of
\* a confirmation event of that call).
C39_MissingFileEdit ==
    /\ \A k \in 1..Len(events) :
          events[k].Type = "ToolCallConfirmation" => ~events[k].DetailsNil
    /\ pc # "panic"

====
